---- MODULE Spec2Model ----
(***************************************************************************)
(* A model of the IR transformation core of PyPTO:                         *)
(*   - the ConvertTensorToBlockOps pass (TransformIncoreFunction,          *)
(*     UpdateCallSites, SubstituteExpr) and the IncoreBlockOps verifier,   *)
(*   - the op-conversion registry,                                         *)
(*   - the pass pipeline (PassPipeline.Run, PassManager.run_passes) and    *)
(*     the Identity pass,                                                  *)
(*   - structural equality and hashing with auto-mapping of Vars.          *)
(*                                                                         *)
(* IR nodes are records.  A Var carries an `id`, which stands for the      *)
(* address of the node: two Vars are the same variable iff their ids are   *)
(* equal (I5).  Every other node is compared by content; the code only     *)
(* compares such nodes by pointer to learn whether a substitution changed  *)
(* something, and a substitution always puts a freshly made Var in place   *)
(* of an input Var, so content and pointer comparison agree there.         *)
(***************************************************************************)
EXTENDS Integers, Sequences, FiniteSets, TLC

\* ------------------------------------------------------------------ bounds
\* Longest body (statements before the return) of a generated function.
MaxBody == 2
\* Longest pass list of a generated pipeline.
MaxPasses == 3
\* Number of distinct Var nodes available to a generated expression pair.
NumVars == 3
\* Register* calls made on the conversion registry after its construction
MaxRegistrations == 3

VARIABLES
  \* --- ConvertTensorToBlockOps (convert_tensor_to_block_ops_pass.cpp)
  program,                  \* the pass's input Program
  pc,                       \* position in the pass
  fi,                       \* index of the function a phase is working on
  si,                       \* index of the param / statement / return value in a loop
  nid,                      \* id (address) of the next node the pass allocates
  tensor_to_tile,           \* TransformIncoreFunction: name -> tile Var
  var_map,                  \* UpdateCallSites: name -> new Var
  new_stmts,                \* statements emitted so far for the current function
  return_stmt,              \* TransformIncoreFunction: the remembered ReturnStmt
  new_params,               \* TransformIncoreFunction Phase 3 locals
  new_return_types,
  new_return_exprs,
  num_added_outputs,
  changed,                  \* UpdateCallSites: did any statement change
  incore_added_outputs,     \* name -> number of added outputs
  transformed_incore_funcs, \* name -> transformed function
  functions_phase1,
  functions_phase2,
  output,                   \* the Program the pass returns (NoProgram before)
  diagnostics,              \* the verifier's sink
  \* --- PassPipeline / PassManager
  passes_,                  \* the pipeline's passes, in AddPass order
  verification_mode_,
  initial_properties_,
  input_program,            \* the program handed to Run / run_passes
  input_defects,            \* the properties whose verifier reports an Error on it
  ppc,                      \* position in Run / run_passes
  pidx,                     \* index of the pass the loop is at
  current,                  \* the loop's `current` program
  defects,                  \* the properties whose verifier reports an Error on `current`
  current_props,            \* Run's tracked property set
  log,                      \* what the loop did, in order
  \* --- structural_equal
  lhs, rhs,                 \* the two nodes compared
  enable_auto_mapping_,     \* the comparer's flag (swapped inside a DefField)
  user_auto_mapping,        \* the flag the caller passed
  work,                     \* the comparisons still to do, first one next
  lhs_to_rhs_var_map_,
  rhs_to_lhs_var_map_,
  eq_result,                \* "running", "true" or "false"
  last_var,                 \* the last EqualVar call: its arguments and result
  \* --- OpConversionRegistry (op_conversion_registry.cpp)
  conversions_,             \* op name -> conversion rule
  registrations,            \* the Register* calls made after construction, in order
  looked_up                 \* the last Lookup call: its argument and what it returned

convVars == <<program, pc, fi, si, nid, tensor_to_tile, var_map, new_stmts, return_stmt,
              new_params, new_return_types, new_return_exprs, num_added_outputs,
              changed, incore_added_outputs, transformed_incore_funcs,
              functions_phase1, functions_phase2, output, diagnostics>>
pipeVars == <<passes_, verification_mode_, initial_properties_, input_program,
              input_defects, ppc, pidx, current, defects, current_props, log>>
eqVars == <<lhs, rhs, enable_auto_mapping_, user_auto_mapping, work,
            lhs_to_rhs_var_map_, rhs_to_lhs_var_map_, eq_result, last_var>>
regVars == <<conversions_, registrations, looked_up>>
vars == <<convVars, pipeVars, eqVars, regVars>>

\* ------------------------------------------------------------- small helpers
EmptyMap == [n \in {} |-> n]
MapPut(m, key, v) == [n \in DOMAIN m \cup {key} |-> IF n = key THEN v ELSE m[n]]
SeqRange(s) == {s[j] : j \in DOMAIN s}

\* =========================================================================
\* IR data model
\* =========================================================================
NoType == [k |-> "NullType"]
ScalarType(dtype) == [k |-> "ScalarType", dtype |-> dtype]
TensorType(shape, dtype) == [k |-> "TensorType", shape |-> shape, dtype |-> dtype]
TileType(shape, dtype) == [k |-> "TileType", shape |-> shape, dtype |-> dtype]
TupleType(types) == [k |-> "TupleType", types |-> types]

ConstInt(value, dtype) == [k |-> "ConstInt", value |-> value, dtype |-> dtype]
Var(name, type, span, id) ==
  [k |-> "Var", name |-> name, type |-> type, span |-> span, id |-> id]
MakeTuple(elements, span) == [k |-> "MakeTuple", elements |-> elements, span |-> span]
TupleGetItemExpr(tuple, index, span) ==
  [k |-> "TupleGetItemExpr", tuple |-> tuple, index |-> index, span |-> span]
\* op_is_global: the Call's op_ is a GlobalVar (a function call), not an Op.
Call(op, op_is_global, args, kwargs, type, span) ==
  [k |-> "Call", op |-> op, op_is_global |-> op_is_global, args |-> args,
   kwargs |-> kwargs, type |-> type, span |-> span]
\* One concrete BinaryExpr / UnaryExpr subclass each stands for all of them: the
\* pass treats every subclass alike (As<BinaryExpr>, As<UnaryExpr>).
Add(left, right, type, span) ==
  [k |-> "Add", left |-> left, right |-> right, type |-> type, span |-> span]
Neg(operand, type, span) ==
  [k |-> "Neg", operand |-> operand, type |-> type, span |-> span]
IsBinaryExpr(e) == e.k = "Add"
IsUnaryExpr(e) == e.k = "Neg"

AssignStmt(var, value, span) ==
  [k |-> "AssignStmt", var |-> var, value |-> value, span |-> span]
EvalStmt(expr, span) == [k |-> "EvalStmt", expr |-> expr, span |-> span]
ReturnStmt(value, span) == [k |-> "ReturnStmt", value |-> value, span |-> span]
IfStmt(condition, then_body, span) ==
  [k |-> "IfStmt", condition |-> condition, then_body |-> then_body, span |-> span]
SeqStmts(stmts, span) == [k |-> "SeqStmts", stmts |-> stmts, span |-> span]
NoStmt == [k |-> "NullStmt"]

Function(name, params, return_types, body, span, func_type) ==
  [name |-> name, params |-> params, return_types |-> return_types, body |-> body,
   span |-> span, func_type |-> func_type]
Program(functions, name, span) == [functions |-> functions, name |-> name, span |-> span]
NoProgram == [functions |-> <<>>, name |-> "<none>", span |-> 0]
\* a null FunctionPtr
NoFunction ==
  [name |-> "<null>", params |-> <<>>, return_types |-> <<>>, body |-> NoStmt,
   span |-> 0, func_type |-> "<null>"]

RECURSIVE GetType(_)
GetTypes(es) == [j \in DOMAIN es |-> GetType(es[j])]
GetType(e) ==
  CASE e.k = "Var" -> e.type
    [] e.k = "ConstInt" -> ScalarType(e.dtype)
    [] e.k = "MakeTuple" -> TupleType(GetTypes(e.elements))
    \* index_ counts from 0, a sequence from 1
    [] e.k = "TupleGetItemExpr" -> GetType(e.tuple).types[e.index + 1]
    [] OTHER -> e.type

\* =========================================================================
\* Op registry (its code is not part of the sources at hand: modelled from the
\* specification, section 4.1, and from the uses the pass makes of it)
\* =========================================================================
TensorOpNames == {"tensor.add", "tensor.sub", "tensor.mul", "tensor.div", "tensor.maximum",
                  "tensor.add_scalar", "tensor.sub_scalar", "tensor.mul_scalar",
                  "tensor.div_scalar", "tensor.exp", "tensor.cast", "tensor.reshape",
                  "tensor.transpose", "tensor.create"}
BlockOpNames == {"block.add", "block.sub", "block.mul", "block.div", "block.maximum",
                 "block.adds", "block.subs", "block.muls", "block.divs", "block.exp",
                 "block.cast", "block.reshape", "block.transpose", "block.load",
                 "block.store"}
IsRegistered(name) == name \in TensorOpNames \cup BlockOpNames
GetOpCategory(name) == IF name \in TensorOpNames THEN "TensorOp" ELSE "BlockOp"

KwHas(kwargs, key) == \E j \in DOMAIN kwargs : kwargs[j][1] = key
KwGet(kwargs, key) == kwargs[CHOOSE j \in DOMAIN kwargs : kwargs[j][1] = key][2]

\* The first tensor- or tile-typed argument decides an elementwise op's result.
FirstArrayType(args) ==
  LET js == {j \in DOMAIN args : GetType(args[j]).k \in {"TensorType", "TileType"}}
  IN IF js = {} THEN NoType
     ELSE GetType(args[CHOOSE j \in js : \A j2 \in js : j <= j2])

InferResultType(name, args, kwargs) ==
  CASE name = "block.load" -> TileType(args[3].elements, GetType(args[1]).dtype)
    [] name = "block.store" -> GetType(args[4])
    [] name = "tensor.create" -> TensorType(args[1].elements, KwGet(kwargs, "dtype"))
    [] name \in BlockOpNames ->
         LET t == FirstArrayType(args)
         IN IF t = NoType THEN NoType ELSE TileType(t.shape, t.dtype)
    [] OTHER ->
         LET t == FirstArrayType(args)
         IN IF t = NoType THEN NoType ELSE TensorType(t.shape, t.dtype)

\* OpRegistry::Create(name, args, kwargs, span): a new Call of the inferred type.
OpRegistryCreate(name, args, kwargs, span) ==
  Call(name, FALSE, args, kwargs, InferResultType(name, args, kwargs), span)

\* =========================================================================
\* Op-conversion registry (op_conversion_registry.cpp)
\* =========================================================================
\* A rule made by RegisterSimple: it remembers the target op's name.
SimpleRule(to_op) == [style |-> "simple", to_op |-> to_op]
NoRule == [style |-> "none"]

\* conversions_ right after the constructor has run.
BaselineConversions ==
  [from_op \in {"tensor.add", "tensor.sub", "tensor.mul", "tensor.div", "tensor.maximum",
                "tensor.add_scalar", "tensor.sub_scalar", "tensor.mul_scalar",
                "tensor.div_scalar", "tensor.exp", "tensor.cast", "tensor.reshape",
                "tensor.transpose"} |->
     CASE from_op = "tensor.add_scalar" -> SimpleRule("block.adds")
       [] from_op = "tensor.sub_scalar" -> SimpleRule("block.subs")
       [] from_op = "tensor.mul_scalar" -> SimpleRule("block.muls")
       [] from_op = "tensor.div_scalar" -> SimpleRule("block.divs")
       [] from_op = "tensor.add" -> SimpleRule("block.add")
       [] from_op = "tensor.sub" -> SimpleRule("block.sub")
       [] from_op = "tensor.mul" -> SimpleRule("block.mul")
       [] from_op = "tensor.div" -> SimpleRule("block.div")
       [] from_op = "tensor.maximum" -> SimpleRule("block.maximum")
       [] from_op = "tensor.exp" -> SimpleRule("block.exp")
       [] from_op = "tensor.cast" -> SimpleRule("block.cast")
       [] from_op = "tensor.reshape" -> SimpleRule("block.reshape")
       [] OTHER -> SimpleRule("block.transpose")]

Lookup(conversions, op_name) ==
  IF op_name \in DOMAIN conversions THEN conversions[op_name] ELSE NoRule
HasConversion(conversions, op_name) == op_name \in DOMAIN conversions

ConversionResult(prologue, result) == [prologue |-> prologue, result |-> result]
\* The ConversionFunc RegisterSimple installs: Create(to_op, args[, kwargs], span).
ApplySimpleRule(to_op, args, kwargs, span) ==
  ConversionResult(<<>>, OpRegistryCreate(to_op, args, kwargs, span))

\* A rule made by RegisterCustom: the caller's ConversionFunc, known by its name.
CustomRule(func) == [style |-> "custom", func |-> func]

\* (variant: a name that has a rule keeps it)
SetRuleIfAbsent(conversions, from_op, rule) ==
  IF from_op \in DOMAIN conversions THEN conversions
  ELSE [n \in DOMAIN conversions \cup {from_op} |-> rule]

\* conversions_[from_op] = rule
SetRule(conversions, from_op, rule) ==
  [n \in DOMAIN conversions \cup {from_op} |->
     IF n = from_op THEN rule ELSE conversions[n]]

\* the registry as its constructor leaves it, nothing registered or looked up since
NoLookup == [name |-> "<none>", rule |-> NoRule, at |-> 0]
RegIdle ==
  /\ conversions_ = BaselineConversions /\ registrations = <<>> /\ looked_up = NoLookup

\* =========================================================================
\* ConvertTensorToBlockOps: helpers
\* =========================================================================
MakeZeroOffsets(ndim, span) ==
  MakeTuple([j \in 1..ndim |-> ConstInt(0, "INT64")], span)
MakeShapeTuple(shape, span) == MakeTuple(shape, span)

\* (variant: a Call is rebuilt without its kwargs)
SubstituteExprDropsKwargs(expr, vmap) ==
  IF expr.k = "Call"
  THEN Call(expr.op, expr.op_is_global,
            [j \in DOMAIN expr.args |->
               IF expr.args[j].k = "Var" /\ expr.args[j].name \in DOMAIN vmap
               THEN vmap[expr.args[j].name] ELSE expr.args[j]],
            <<>>, expr.type, expr.span)
  ELSE expr

\* SubstituteExpr without its internal checks: the expression it returns when no
\* check fires.
RECURSIVE SubstituteExpr(_, _)
SubstituteExpr(expr, vmap) ==
  CASE expr.k = "Var" ->
         IF expr.name \in DOMAIN vmap THEN vmap[expr.name] ELSE expr
    [] expr.k = "Call" ->
         LET new_args == [j \in DOMAIN expr.args |-> SubstituteExpr(expr.args[j], vmap)]
         IN IF new_args = expr.args THEN expr
            ELSE Call(expr.op, expr.op_is_global, new_args, expr.kwargs, expr.type, expr.span)
    [] expr.k = "MakeTuple" ->
         LET new_elements ==
               [j \in DOMAIN expr.elements |-> SubstituteExpr(expr.elements[j], vmap)]
         IN IF new_elements = expr.elements THEN expr
            ELSE MakeTuple(new_elements, expr.span)
    [] expr.k = "TupleGetItemExpr" ->
         LET new_tuple == SubstituteExpr(expr.tuple, vmap)
         IN IF new_tuple = expr.tuple THEN expr
            ELSE TupleGetItemExpr(new_tuple, expr.index, expr.span)
    [] OTHER -> expr   \* BinaryExpr, UnaryExpr and leaves are returned as they are

\* Whether SubstituteExpr(expr, vmap) ends in one of its INTERNAL_CHECKs: some
\* BinaryExpr or UnaryExpr it reaches has an operand the substitution changes.
RECURSIVE SubstituteThrows(_, _)
SubstituteThrows(expr, vmap) ==
  CASE expr.k = "Call" -> \E j \in DOMAIN expr.args : SubstituteThrows(expr.args[j], vmap)
    [] expr.k = "MakeTuple" ->
         \E j \in DOMAIN expr.elements : SubstituteThrows(expr.elements[j], vmap)
    [] expr.k = "TupleGetItemExpr" -> SubstituteThrows(expr.tuple, vmap)
    [] IsBinaryExpr(expr) ->
         \/ SubstituteThrows(expr.left, vmap)
         \/ SubstituteThrows(expr.right, vmap)
         \/ SubstituteExpr(expr.left, vmap) # expr.left
         \/ SubstituteExpr(expr.right, vmap) # expr.right
    [] IsUnaryExpr(expr) ->
         \/ SubstituteThrows(expr.operand, vmap)
         \/ SubstituteExpr(expr.operand, vmap) # expr.operand
    [] OTHER -> FALSE

\* =========================================================================
\* Input programs of ConvertTensorToBlockOps.  The generated ones satisfy
\* SplitIncoreOrch (flat bodies), I2, I3, I4 and are in SSA form; two more
\* (MalformedIncoreFunctions) are what the pass's internal checks are for.
\* =========================================================================
\* the span of the i-th function's definition
FuncSpan(i) == 100 * i
\* ids below FreshBase are the Vars of the input program
FreshBase == 1000

DimSixteen == ConstInt(16, "INT64")
T16 == TensorType(<<DimSixteen>>, "FP32")
S64 == ScalarType("INT64")

ParamA == Var("a", T16, 0, 1)
ParamB == Var("b", T16, 0, 2)
ParamS == Var("s", S64, 0, 3)
ParamX == Var("x", T16, 0, 4)
ParamN == Var("n", S64, 0, 5)
\* the Var the j-th statement of a body binds
Target(prefix, j, type) == Var(prefix \o ToString(j), type, 0, 10 + j)
StmtSpan(j) == 10 * j
CallSpan(j) == 10 * j + 1

TensorVars(vis) == {v \in vis : v.type.k = "TensorType"}
ScalarVars(vis) == {v \in vis : v.type.k = "ScalarType"}
TupleVars(vis) == {v \in vis : v.type.k = "TupleType"}
OpCall(op, args, type, j) == Call(op, FALSE, args, <<>>, type, CallSpan(j))
PlusOne(s, j) == Add(s, ConstInt(1, "INT64"), S64, CallSpan(j))

\* The statements an InCore body may have at position j, over the visible Vars.
IncoreStmtChoices(j, vis) ==
  {AssignStmt(Target("t", j, T16), OpCall("tensor.add", <<x, y>>, T16, j), StmtSpan(j)) :
     x \in TensorVars(vis), y \in TensorVars(vis)}
  \cup {AssignStmt(Target("t", j, T16), OpCall("opaque.g", <<x>>, T16, j), StmtSpan(j)) :
          x \in TensorVars(vis)}
  \cup {AssignStmt(Target("t", j, S64),
                   Call("opaque.s", FALSE, <<x>>, <<<<"axis", 0>>>>, S64, CallSpan(j)),
                   StmtSpan(j)) : x \in ScalarVars(vis)}
  \cup {AssignStmt(Target("t", j, S64), OpCall("opaque.n", <<x>>, S64, j), StmtSpan(j)) :
          x \in TensorVars(vis)}
  \cup {AssignStmt(Target("t", j, S64), PlusOne(x, j), StmtSpan(j)) : x \in ScalarVars(vis)}
  \cup {AssignStmt(Target("t", j, TupleType(<<T16>>)), MakeTuple(<<x>>, CallSpan(j)),
                   StmtSpan(j)) : x \in TensorVars(vis)}
  \cup {EvalStmt(OpCall("tensor.add", <<x, x>>, T16, j), StmtSpan(j)) : x \in TensorVars(vis)}
  \cup {EvalStmt(OpCall("opaque.n", <<OpCall("tensor.add", <<x, x>>, T16, j)>>, S64, j),
                  StmtSpan(j)) : x \in TensorVars(vis)}

Defs(stmt) == IF stmt.k = "AssignStmt" THEN {stmt.var} ELSE {}

\* Bodies of at most n statements from position j on, each with the Vars visible
\* after it.
RECURSIVE GenBodies(_, _, _, _)
GenBodies(Choices(_, _), j, vis, n) ==
  {[stmts |-> <<>>, vis |-> vis]}
  \cup (IF n = 0 THEN {}
        ELSE UNION {{[stmts |-> <<st>> \o r.stmts, vis |-> r.vis] :
                       r \in GenBodies(Choices, j + 1, vis \cup Defs(st), n - 1)} :
                    st \in Choices(j, vis)})

\* A body is one statement, or a SeqStmts of several.
MakeBody(stmts, ret, span) ==
  IF stmts = <<>> THEN ret ELSE SeqStmts(stmts \o <<ret>>, span)

LastVar(b, params) ==
  LET ds == {j \in DOMAIN b.stmts : b.stmts[j].k = "AssignStmt"}
  IN IF ds = {} THEN params[1] ELSE b.stmts[CHOOSE j \in ds : \A j2 \in ds : j2 <= j].var

\* what an InCore function returns: one visible Var, or the last bound Var and a
\* second one
ReturnChoices(b, params) ==
  {<<v>> : v \in b.vis} \cup {<<LastVar(b, params), v>> : v \in b.vis}

IncoreParamChoices ==
  {<<ParamA>>, <<ParamA, ParamB>>, <<ParamA, ParamS>>, <<ParamS>>}

IncoreFunctions ==
  UNION {UNION {{Function("f", params, GetTypes(ret),
                          MakeBody(b.stmts, ReturnStmt(ret, StmtSpan(Len(b.stmts) + 1)),
                                   FuncSpan(1)),
                          FuncSpan(1), "InCore") :
                   ret \in ReturnChoices(b, params)} :
                b \in GenBodies(IncoreStmtChoices, 1, SeqRange(params), MaxBody)} :
         params \in IncoreParamChoices}

\* the type a call of function f has
CallType(f) ==
  IF Len(f.return_types) = 1 THEN f.return_types[1] ELSE TupleType(f.return_types)
FuncCall(f, args, j) == Call(f.name, TRUE, args, <<>>, CallType(f), CallSpan(j))

\* the caller with one call site: g(x, n) { y1 = f(..); return y1 }
PlainArgs(f) ==
  [j \in DOMAIN f.params |-> IF f.params[j].type.k = "TensorType" THEN ParamX ELSE ParamN]
PlainCaller(f) ==
  LET y == Target("y", 1, CallType(f))
  IN Function("g", <<ParamX, ParamN>>, <<CallType(f)>>,
              SeqStmts(<<AssignStmt(y, FuncCall(f, PlainArgs(f), 1), StmtSpan(1)),
                         ReturnStmt(<<y>>, StmtSpan(2))>>, FuncSpan(2)),
              FuncSpan(2), "Orchestration")

\* three fixed callees for the generated callers
CalleeAdd ==
  LET t == Target("t", 1, T16)
  IN Function("f", <<ParamA>>, <<T16>>,
              SeqStmts(<<AssignStmt(t, OpCall("tensor.add", <<ParamA, ParamA>>, T16, 1),
                                    StmtSpan(1)),
                         ReturnStmt(<<t>>, StmtSpan(2))>>, FuncSpan(1)),
              FuncSpan(1), "InCore")
CalleeTwo ==
  LET t == Target("t", 1, T16)
      u == Target("t", 2, S64)
  IN Function("f", <<ParamA, ParamS>>, <<T16, S64>>,
              SeqStmts(<<AssignStmt(t, OpCall("tensor.add", <<ParamA, ParamA>>, T16, 1),
                                    StmtSpan(1)),
                         AssignStmt(u, PlusOne(ParamS, 2), StmtSpan(2)),
                         ReturnStmt(<<t, u>>, StmtSpan(3))>>, FuncSpan(1)),
              FuncSpan(1), "InCore")
CalleeScalar ==
  LET u == Target("t", 1, S64)
  IN Function("f", <<ParamS>>, <<S64>>,
              SeqStmts(<<AssignStmt(u, PlusOne(ParamS, 1), StmtSpan(1)),
                         ReturnStmt(<<u>>, StmtSpan(2))>>, FuncSpan(1)),
              FuncSpan(1), "InCore")
Callees == {CalleeAdd, CalleeTwo, CalleeScalar}

\* the argument lists a call of f may pass: a tensor Var per tensor parameter, a
\* scalar Var or a scalar expression per scalar parameter
RECURSIVE ArgChoices(_, _, _, _)
ArgChoices(f, vis, j, k) ==
  IF k > Len(f.params) THEN {<<>>}
  ELSE LET here == IF f.params[k].type.k = "TensorType" THEN TensorVars(vis)
                   ELSE ScalarVars(vis) \cup {PlusOne(v, j) : v \in ScalarVars(vis)}
       IN {<<a>> \o rest : a \in here, rest \in ArgChoices(f, vis, j, k + 1)}

\* The statements a caller body may have at position j.
CallerStmtChoices(f, j, vis) ==
  {AssignStmt(Target("y", j, CallType(f)), FuncCall(f, args, j), StmtSpan(j)) :
     args \in ArgChoices(f, vis, j, 1)}
  \cup {AssignStmt(Target("y", j, S64), OpCall("opaque.n", <<x>>, S64, j), StmtSpan(j)) :
          x \in TensorVars(vis)}
  \cup {AssignStmt(Target("y", j, S64), PlusOne(x, j), StmtSpan(j)) : x \in ScalarVars(vis)}
  \cup {AssignStmt(Target("y", j, x.type.types[2]),
                   TupleGetItemExpr(x, 1, CallSpan(j)), StmtSpan(j)) : x \in TupleVars(vis)}
  \cup {EvalStmt(OpCall("opaque.n", <<x>>, S64, j), StmtSpan(j)) : x \in TensorVars(vis)}
  \cup {EvalStmt(FuncCall(f, PlainArgs(f), j), StmtSpan(j))}

CallerFunctions(f) ==
  LET Choices(j, vis) == CallerStmtChoices(f, j, vis)
  IN UNION {{Function("g", <<ParamX, ParamN>>, GetTypes(ret),
                      MakeBody(b.stmts, ReturnStmt(ret, StmtSpan(Len(b.stmts) + 1)),
                               FuncSpan(2)),
                      FuncSpan(2), "Orchestration") :
               ret \in {<<v>> : v \in b.vis}} :
            b \in GenBodies(Choices, 1, {ParamX, ParamN}, MaxBody + 1)}

\* two InCore functions that are not well formed: one whose body has no
\* ReturnStmt, one that declares a scalar and returns a tensor
IncoreNoReturn ==
  Function("f", <<ParamA>>, <<>>,
           AssignStmt(Target("t", 1, T16), OpCall("tensor.add", <<ParamA, ParamA>>, T16, 1),
                      StmtSpan(1)),
           FuncSpan(1), "InCore")
IncoreScalarDeclared ==
  LET t == Target("t", 1, T16)
  IN Function("f", <<ParamA>>, <<S64>>,
              SeqStmts(<<AssignStmt(t, OpCall("tensor.add", <<ParamA, ParamA>>, T16, 1),
                                    StmtSpan(1)),
                         ReturnStmt(<<t>>, StmtSpan(2))>>, FuncSpan(1)),
              FuncSpan(1), "InCore")
MalformedIncoreFunctions == {IncoreNoReturn, IncoreScalarDeclared}

ConvPrograms ==
  {Program(<<f, PlainCaller(f)>>, "prog", 1) :
     f \in IncoreFunctions \cup MalformedIncoreFunctions}
  \cup UNION {{Program(<<g, f>>, "prog", 1) : g \in CallerFunctions(f)} : f \in Callees}

\* =========================================================================
\* ConvertTensorToBlockOps: the pass, one step per loop iteration
\* =========================================================================
BodyStmts(func) == IF func.body.k = "SeqStmts" THEN func.body.stmts ELSE <<func.body>>

ConvIdle ==
  /\ program = NoProgram /\ pc = "idle" /\ fi = 0 /\ si = 0 /\ nid = FreshBase
  /\ tensor_to_tile = EmptyMap /\ var_map = EmptyMap /\ new_stmts = <<>>
  /\ return_stmt = NoStmt /\ new_params = <<>> /\ new_return_types = <<>>
  /\ new_return_exprs = <<>> /\ num_added_outputs = 0 /\ changed = FALSE
  /\ incore_added_outputs = EmptyMap /\ transformed_incore_funcs = EmptyMap
  /\ functions_phase1 = <<>> /\ functions_phase2 = <<>> /\ output = NoProgram
  /\ diagnostics = <<>>

ConvInit ==
  /\ program \in ConvPrograms /\ pc = "phase1" /\ fi = 1 /\ si = 0 /\ nid = FreshBase
  /\ tensor_to_tile = EmptyMap /\ var_map = EmptyMap /\ new_stmts = <<>>
  /\ return_stmt = NoStmt /\ new_params = <<>> /\ new_return_types = <<>>
  /\ new_return_exprs = <<>> /\ num_added_outputs = 0 /\ changed = FALSE
  /\ incore_added_outputs = EmptyMap /\ transformed_incore_funcs = EmptyMap
  /\ functions_phase1 = <<>> /\ functions_phase2 = <<>> /\ output = NoProgram
  /\ diagnostics = <<>>

\* the pass runs alone: the pipeline and the comparison are idle
ConvOnly == UNCHANGED <<pipeVars, eqVars, regVars>>

\* an INTERNAL_CHECK failed: the pass throws and returns no program
InternalCheckFailed ==
  /\ pc' = "abort"
  /\ UNCHANGED <<program, fi, si, nid, tensor_to_tile, var_map, new_stmts, return_stmt,
                 new_params, new_return_types, new_return_exprs, num_added_outputs,
                 changed, incore_added_outputs, transformed_incore_funcs,
                 functions_phase1, functions_phase2, output, diagnostics>>

\* --- the pass's Phase 1 loop
Phase1Func == program.functions[fi]

Phase1Other ==
  /\ ConvOnly
  /\ pc = "phase1" /\ fi <= Len(program.functions)
  /\ Phase1Func.func_type # "InCore"
  /\ functions_phase1' = Append(functions_phase1, Phase1Func)
  /\ fi' = fi + 1
  /\ UNCHANGED <<program, pc, si, nid, tensor_to_tile, var_map, new_stmts, return_stmt,
                 new_params, new_return_types, new_return_exprs, num_added_outputs,
                 changed, incore_added_outputs, transformed_incore_funcs,
                 functions_phase2, output, diagnostics>>

\* TransformIncoreFunction is entered
Phase1Incore ==
  /\ ConvOnly
  /\ pc = "phase1" /\ fi <= Len(program.functions)
  /\ Phase1Func.func_type = "InCore"
  /\ pc' = "load" /\ si' = 1
  /\ tensor_to_tile' = EmptyMap /\ new_stmts' = <<>> /\ return_stmt' = NoStmt
  /\ UNCHANGED <<program, fi, nid, var_map, new_params, new_return_types,
                 new_return_exprs, num_added_outputs, changed, incore_added_outputs,
                 transformed_incore_funcs, functions_phase1, functions_phase2, output,
                 diagnostics>>

Phase1Done ==
  /\ ConvOnly
  /\ pc = "phase1" /\ fi > Len(program.functions)
  /\ pc' = "phase2" /\ fi' = 1
  /\ UNCHANGED <<program, si, nid, tensor_to_tile, var_map, new_stmts, return_stmt,
                 new_params, new_return_types, new_return_exprs, num_added_outputs,
                 changed, incore_added_outputs, transformed_incore_funcs,
                 functions_phase1, functions_phase2, output, diagnostics>>

\* --- TransformIncoreFunction, Phase 1: a block.load per TensorType parameter
LoadCall(param, span) ==
  OpRegistryCreate("block.load",
                   <<param, MakeZeroOffsets(Len(param.type.shape), span),
                     MakeShapeTuple(param.type.shape, span)>>,
                   <<<<"target_memory", "UB">>>>, span)

LoadParam ==
  /\ ConvOnly
  /\ pc = "load" /\ si <= Len(Phase1Func.params)
  /\ LET param == Phase1Func.params[si]
         span == Phase1Func.span
         load_call == LoadCall(param, span)
         tile_var == Var(param.name \o "_tile", GetType(load_call), span, nid)
     IN IF param.type.k # "TensorType"
        THEN UNCHANGED <<new_stmts, tensor_to_tile, nid>>
        ELSE /\ new_stmts' = Append(new_stmts, AssignStmt(tile_var, load_call, span))
             /\ tensor_to_tile' = MapPut(tensor_to_tile, param.name, tile_var)
             /\ nid' = nid + 1
  /\ si' = si + 1
  /\ UNCHANGED <<program, pc, fi, var_map, return_stmt, new_params, new_return_types,
                 new_return_exprs, num_added_outputs, changed, incore_added_outputs,
                 transformed_incore_funcs, functions_phase1, functions_phase2, output,
                 diagnostics>>

LoadDone ==
  /\ ConvOnly
  /\ pc = "load" /\ si > Len(Phase1Func.params)
  /\ pc' = "body" /\ si' = 1
  /\ UNCHANGED <<program, fi, nid, tensor_to_tile, var_map, new_stmts, return_stmt,
                 new_params, new_return_types, new_return_exprs, num_added_outputs,
                 changed, incore_added_outputs, transformed_incore_funcs,
                 functions_phase1, functions_phase2, output, diagnostics>>

\* --- TransformIncoreFunction, Phase 2: the walk over the body
BodyStmt == BodyStmts(Phase1Func)[si]
InBody == pc = "body" /\ si <= Len(BodyStmts(Phase1Func))

BodyUnchanged ==
  UNCHANGED <<program, pc, fi, var_map, new_params, new_return_types, new_return_exprs,
              num_added_outputs, changed, incore_added_outputs, transformed_incore_funcs,
              functions_phase1, functions_phase2, output, diagnostics>>

BodyReturn ==
  /\ ConvOnly
  /\ InBody /\ BodyStmt.k = "ReturnStmt"
  /\ return_stmt' = BodyStmt
  /\ si' = si + 1
  /\ UNCHANGED <<new_stmts, tensor_to_tile, nid>>
  /\ BodyUnchanged

BodyPassThrough ==
  /\ ConvOnly
  /\ InBody /\ BodyStmt.k \notin {"ReturnStmt", "AssignStmt"}
  /\ new_stmts' = Append(new_stmts, BodyStmt)
  /\ si' = si + 1
  /\ UNCHANGED <<return_stmt, tensor_to_tile, nid>>
  /\ BodyUnchanged

\* the value is converted: a Call of an op (not a GlobalVar) with a rule
IsConverted(value) ==
  /\ value.k = "Call"
  /\ ~value.op_is_global
  /\ Lookup(BaselineConversions, value.op) # NoRule

\* substitute and keep: the assignment is re-bound when the value changed
BodyKeepAssign ==
  /\ ConvOnly
  /\ InBody /\ BodyStmt.k = "AssignStmt" /\ ~IsConverted(BodyStmt.value)
  /\ IF SubstituteThrows(BodyStmt.value, tensor_to_tile)
     THEN InternalCheckFailed
     ELSE /\ LET assign == BodyStmt
                 new_value == SubstituteExpr(assign.value, tensor_to_tile)
                 new_var == Var(assign.var.name, GetType(new_value), assign.var.span, nid)
             IN IF new_value # assign.value
                THEN /\ new_stmts' =
                          Append(new_stmts, AssignStmt(new_var, new_value, assign.span))
                     /\ tensor_to_tile' = MapPut(tensor_to_tile, assign.var.name, new_var)
                     /\ nid' = nid + 1
                ELSE /\ new_stmts' = Append(new_stmts, assign)
                     /\ UNCHANGED <<tensor_to_tile, nid>>
          /\ si' = si + 1
          /\ UNCHANGED return_stmt
          /\ BodyUnchanged

BodyConvert ==
  /\ ConvOnly
  /\ InBody /\ BodyStmt.k = "AssignStmt" /\ IsConverted(BodyStmt.value)
  /\ LET assign == BodyStmt
         call == assign.value
     IN IF \E j \in DOMAIN call.args : SubstituteThrows(call.args[j], tensor_to_tile)
        THEN InternalCheckFailed
        ELSE /\ LET substituted_args ==
                      [j \in DOMAIN call.args |-> SubstituteExpr(call.args[j], tensor_to_tile)]
                    converter == Lookup(BaselineConversions, call.op)
                    result == ApplySimpleRule(converter.to_op, substituted_args,
                                              call.kwargs, call.span)
                    tile_var == Var(assign.var.name \o "_tile", GetType(result.result),
                                    assign.var.span, nid)
                IN /\ new_stmts' = (new_stmts \o result.prologue)
                                     \o <<AssignStmt(tile_var, result.result, assign.span)>>
                   /\ tensor_to_tile' = MapPut(tensor_to_tile, assign.var.name, tile_var)
                   /\ nid' = nid + 1
             /\ si' = si + 1
             /\ UNCHANGED return_stmt
             /\ BodyUnchanged

BodyDone ==
  /\ ConvOnly
  /\ pc = "body" /\ si > Len(BodyStmts(Phase1Func))
  /\ IF return_stmt = NoStmt
     THEN InternalCheckFailed
     ELSE /\ pc' = "ret" /\ si' = 1
          /\ new_params' = Phase1Func.params
          /\ new_return_types' = <<>> /\ new_return_exprs' = <<>>
          /\ num_added_outputs' = 0
          /\ UNCHANGED <<program, fi, nid, tensor_to_tile, var_map, new_stmts, return_stmt,
                         changed, incore_added_outputs, transformed_incore_funcs,
                         functions_phase1, functions_phase2, output, diagnostics>>

\* --- TransformIncoreFunction, Phase 3: output parameters and block.store
\* (variant: the output is named after the position of the return value)
OutputNameByPosition(counter, i) == "out_" \o ToString(i)
\* "out_" + std::to_string(num_added_outputs), for the i-th return value
OutputName(counter, i) == "out_" \o ToString(counter)

ReturnValue ==
  /\ ConvOnly
  /\ pc = "ret" /\ si <= Len(return_stmt.value)
  /\ IF SubstituteThrows(return_stmt.value[si], tensor_to_tile)
     THEN InternalCheckFailed
     ELSE LET func == Phase1Func
              span == func.span
              ret_expr == SubstituteExpr(return_stmt.value[si], tensor_to_tile)
              tile_type == GetType(ret_expr)
              orig_tensor_type == func.return_types[si]
              out_name == OutputName(num_added_outputs, si - 1)
              out_param == Var(out_name, orig_tensor_type, span, nid)
              store_call ==
                OpRegistryCreate("block.store",
                                 <<ret_expr, MakeZeroOffsets(Len(tile_type.shape), span),
                                   MakeShapeTuple(tile_type.shape, span), out_param>>,
                                 <<>>, span)
              store_var == Var(out_name, GetType(store_call), span, nid + 1)
          IN IF tile_type.k = "TileType" /\ orig_tensor_type.k # "TensorType"
             THEN InternalCheckFailed
             ELSE /\ IF tile_type.k = "TileType"
                     THEN /\ new_params' = Append(new_params, out_param)
                          /\ new_stmts' =
                               Append(new_stmts, AssignStmt(store_var, store_call, span))
                          /\ new_return_types' =
                               Append(new_return_types, GetType(store_call))
                          /\ new_return_exprs' = Append(new_return_exprs, store_var)
                          /\ num_added_outputs' = num_added_outputs + 1
                          /\ nid' = nid + 2
                     ELSE /\ new_return_types' = Append(new_return_types, GetType(ret_expr))
                          /\ new_return_exprs' = Append(new_return_exprs, ret_expr)
                          /\ UNCHANGED <<new_params, new_stmts, num_added_outputs, nid>>
                  /\ si' = si + 1
                  /\ UNCHANGED <<program, pc, fi, tensor_to_tile, var_map, return_stmt,
                                 changed, incore_added_outputs, transformed_incore_funcs,
                                 functions_phase1, functions_phase2, output, diagnostics>>

\* the function TransformIncoreFunction returns, from its locals
TransformedFunction ==
  LET func == Phase1Func
      all_stmts == Append(new_stmts, ReturnStmt(new_return_exprs, return_stmt.span))
  IN Function(func.name, new_params, new_return_types, SeqStmts(all_stmts, func.span),
              func.span, "InCore")

ReturnDone ==
  /\ ConvOnly
  /\ pc = "ret" /\ si > Len(return_stmt.value)
  /\ incore_added_outputs' =
       MapPut(incore_added_outputs, Phase1Func.name, num_added_outputs)
  /\ transformed_incore_funcs' =
       MapPut(transformed_incore_funcs, Phase1Func.name, TransformedFunction)
  /\ functions_phase1' = Append(functions_phase1, TransformedFunction)
  /\ pc' = "phase1" /\ fi' = fi + 1
  /\ UNCHANGED <<program, si, nid, tensor_to_tile, var_map, new_stmts, return_stmt,
                 new_params, new_return_types, new_return_exprs, num_added_outputs,
                 changed, functions_phase2, output, diagnostics>>

\* --- the pass's Phase 2 loop
Phase2Func == functions_phase1[fi]

Phase2Incore ==
  /\ ConvOnly
  /\ pc = "phase2" /\ fi <= Len(functions_phase1)
  /\ Phase2Func.func_type = "InCore"
  /\ functions_phase2' = Append(functions_phase2, Phase2Func)
  /\ fi' = fi + 1
  /\ UNCHANGED <<program, pc, si, nid, tensor_to_tile, var_map, new_stmts, return_stmt,
                 new_params, new_return_types, new_return_exprs, num_added_outputs,
                 changed, incore_added_outputs, transformed_incore_funcs,
                 functions_phase1, output, diagnostics>>

\* UpdateCallSites is entered
Phase2Other ==
  /\ ConvOnly
  /\ pc = "phase2" /\ fi <= Len(functions_phase1)
  /\ Phase2Func.func_type # "InCore"
  /\ pc' = "ucs" /\ si' = 1
  /\ new_stmts' = <<>> /\ changed' = FALSE /\ var_map' = EmptyMap
  /\ UNCHANGED <<program, fi, nid, tensor_to_tile, return_stmt, new_params,
                 new_return_types, new_return_exprs, num_added_outputs,
                 incore_added_outputs, transformed_incore_funcs, functions_phase1,
                 functions_phase2, output, diagnostics>>

Phase2Done ==
  /\ ConvOnly
  /\ pc = "phase2" /\ fi > Len(functions_phase1)
  /\ output' = Program(functions_phase2, program.name, program.span)
  /\ pc' = "built"
  /\ UNCHANGED <<program, fi, si, nid, tensor_to_tile, var_map, new_stmts, return_stmt,
                 new_params, new_return_types, new_return_exprs, num_added_outputs,
                 changed, incore_added_outputs, transformed_incore_funcs,
                 functions_phase1, functions_phase2, diagnostics>>

\* --- UpdateCallSites: the walk over the caller's body
UcsStmt == BodyStmts(Phase2Func)[si]
InUcs == pc = "ucs" /\ si <= Len(BodyStmts(Phase2Func))

UcsUnchanged ==
  UNCHANGED <<program, pc, fi, tensor_to_tile, return_stmt, new_params, new_return_types,
              new_return_exprs, num_added_outputs, incore_added_outputs,
              transformed_incore_funcs, functions_phase1, functions_phase2, output,
              diagnostics>>

UcsReturn ==
  /\ ConvOnly
  /\ InUcs /\ UcsStmt.k = "ReturnStmt"
  /\ LET ret == UcsStmt
     IN IF var_map # EmptyMap
        THEN IF \E j \in DOMAIN ret.value : SubstituteThrows(ret.value[j], var_map)
             THEN InternalCheckFailed
             ELSE /\ new_stmts' =
                       Append(new_stmts,
                              ReturnStmt([j \in DOMAIN ret.value |->
                                            SubstituteExpr(ret.value[j], var_map)],
                                         ret.span))
                  /\ si' = si + 1
                  /\ UNCHANGED <<var_map, changed, nid>>
                  /\ UcsUnchanged
        ELSE /\ new_stmts' = Append(new_stmts, ret)
             /\ si' = si + 1
             /\ UNCHANGED <<var_map, changed, nid>>
             /\ UcsUnchanged

UcsPassThrough ==
  /\ ConvOnly
  /\ InUcs /\ UcsStmt.k \notin {"ReturnStmt", "AssignStmt"}
  /\ new_stmts' = Append(new_stmts, UcsStmt)
  /\ si' = si + 1
  /\ UNCHANGED <<var_map, changed, nid>>
  /\ UcsUnchanged

\* the substituted value is a call of a transformed InCore function that got
\* output parameters
IsCallSite(value) ==
  /\ value.k = "Call"
  /\ value.op_is_global
  /\ value.op \in DOMAIN incore_added_outputs
  /\ incore_added_outputs[value.op] # 0

\* substitute and keep: the assignment is re-bound when the value changed
UcsKeepAssign ==
  /\ ConvOnly
  /\ InUcs /\ UcsStmt.k = "AssignStmt"
  /\ IF SubstituteThrows(UcsStmt.value, var_map)
     THEN InternalCheckFailed
     ELSE LET assign == UcsStmt
              value == SubstituteExpr(assign.value, var_map)
              new_var == Var(assign.var.name, GetType(value), assign.var.span, nid)
          IN /\ ~IsCallSite(value)
             /\ IF value # assign.value
                THEN /\ new_stmts' = Append(new_stmts, AssignStmt(new_var, value, assign.span))
                     /\ var_map' = MapPut(var_map, assign.var.name, new_var)
                     /\ changed' = TRUE
                     /\ nid' = nid + 1
                ELSE /\ new_stmts' = Append(new_stmts, assign)
                     /\ UNCHANGED <<var_map, changed, nid>>
             /\ si' = si + 1
             /\ UcsUnchanged

\* out_i = tensor.create(shape_i, dtype = dtype_i), for the i-th added output
CreateCall(out_param, span) ==
  OpRegistryCreate("tensor.create", <<MakeShapeTuple(out_param.type.shape, span)>>,
                   <<<<"dtype", out_param.type.dtype>>>>, span)
\* (variant: the Var is made without the call's type)
CreateVarUntyped(i, out_param, span, id) ==
  Var("out_" \o ToString(i), NoType, span, id)
CreateVar(i, out_param, span, id) ==
  Var("out_" \o ToString(i), GetType(CreateCall(out_param, span)), span, id)

UcsCallSite ==
  /\ ConvOnly
  /\ InUcs /\ UcsStmt.k = "AssignStmt"
  /\ ~SubstituteThrows(UcsStmt.value, var_map)
  /\ IsCallSite(SubstituteExpr(UcsStmt.value, var_map))
  /\ LET assign == UcsStmt
         call == SubstituteExpr(assign.value, var_map)
         span == Phase2Func.span
         num_outputs == incore_added_outputs[call.op]
     IN IF call.op \notin DOMAIN transformed_incore_funcs
        THEN InternalCheckFailed
        ELSE LET incore_func == transformed_incore_funcs[call.op]
                 orig_param_count == Len(incore_func.params) - num_outputs
                 OutParam(i) == incore_func.params[orig_param_count + i + 1]
                 creates ==
                   [j \in 1..num_outputs |->
                      AssignStmt(CreateVar(j - 1, OutParam(j - 1), span, nid + j - 1),
                                 CreateCall(OutParam(j - 1), span), span)]
                 extra_args == [j \in 1..num_outputs |-> creates[j].var]
                 new_args == call.args \o extra_args
                 new_return_type ==
                   IF Len(incore_func.return_types) = 0 THEN NoType
                   ELSE IF Len(incore_func.return_types) = 1
                        THEN incore_func.return_types[1]
                        ELSE TupleType(incore_func.return_types)
                 new_call == Call(call.op, TRUE, new_args, call.kwargs, new_return_type,
                                  call.span)
                 new_assign_var == Var(assign.var.name, new_return_type, assign.var.span,
                                       nid + num_outputs)
             IN IF \E i \in 0..(num_outputs - 1) : OutParam(i).type.k # "TensorType"
                THEN InternalCheckFailed
                ELSE /\ new_stmts' = (new_stmts \o creates)
                                       \o <<AssignStmt(new_assign_var, new_call, assign.span)>>
                     /\ var_map' = MapPut(var_map, assign.var.name, new_assign_var)
                     /\ changed' = TRUE
                     /\ nid' = nid + num_outputs + 1
                     /\ si' = si + 1
                     /\ UcsUnchanged

\* the function UpdateCallSites returns, from its locals
UpdatedFunction ==
  LET func == Phase2Func
  IN IF ~changed THEN func
     ELSE Function(func.name, func.params, func.return_types,
                   SeqStmts(new_stmts, func.span), func.span, func.func_type)

UcsDone ==
  /\ ConvOnly
  /\ pc = "ucs" /\ si > Len(BodyStmts(Phase2Func))
  /\ functions_phase2' = Append(functions_phase2, UpdatedFunction)
  /\ pc' = "phase2" /\ fi' = fi + 1
  /\ UNCHANGED <<program, si, nid, tensor_to_tile, var_map, new_stmts, return_stmt,
                 new_params, new_return_types, new_return_exprs, num_added_outputs,
                 changed, incore_added_outputs, transformed_incore_funcs,
                 functions_phase1, output, diagnostics>>

\* =========================================================================
\* The IncoreBlockOps property verifier
\* =========================================================================
Diagnostic(severity, rule_name, error_code, message, span) ==
  [severity |-> severity, rule_name |-> rule_name, error_code |-> error_code,
   message |-> message, span |-> span]

CheckTensorOp(call, span) ==
  IF call.op_is_global THEN <<>>
  ELSE IF ~IsRegistered(call.op) THEN <<>>
  ELSE IF GetOpCategory(call.op) = "TensorOp" /\ HasConversion(BaselineConversions, call.op)
       THEN <<Diagnostic("Error", "IncoreBlockOps", 0,
                         ("Tensor op '" \o call.op)
                           \o "' found in InCore function (should have been converted)",
                         span)>>
       ELSE <<>>

RECURSIVE ConcatAll(_)
ConcatAll(ss) == IF ss = <<>> THEN <<>> ELSE Head(ss) \o ConcatAll(Tail(ss))

\* IncoreBlockOpsVerifier::VisitStmt with the base visitor's traversal: the
\* top-level call of an assignment or an evaluation is looked at, not its arguments
RECURSIVE VisitStmt(_)
VisitStmt(stmt) ==
  CASE stmt.k = "AssignStmt" ->
         IF stmt.value.k = "Call" THEN CheckTensorOp(stmt.value, stmt.span) ELSE <<>>
    [] stmt.k = "EvalStmt" ->
         IF stmt.expr.k = "Call" THEN CheckTensorOp(stmt.expr, stmt.span) ELSE <<>>
    [] stmt.k = "SeqStmts" -> ConcatAll([j \in DOMAIN stmt.stmts |-> VisitStmt(stmt.stmts[j])])
    [] stmt.k = "IfStmt" -> VisitStmt(stmt.then_body)
    [] OTHER -> <<>>

IncoreBlockOpsVerify(prog) ==
  IF prog = NoProgram THEN <<>>
  ELSE ConcatAll([j \in DOMAIN prog.functions |->
                    IF prog.functions[j] = NoFunction \/ prog.functions[j].body = NoStmt
                    THEN <<>>
                    ELSE IF prog.functions[j].func_type # "InCore" THEN <<>>
                    ELSE VisitStmt(prog.functions[j].body)])

\* the sink after a verifier has run: it only ever calls emplace_back on it
EmplaceBackKeepsNone(sink, found) == found
EmplaceBackAll(sink, found) == sink \o found

Verify ==
  /\ ConvOnly
  /\ pc = "built"
  /\ diagnostics' = EmplaceBackAll(diagnostics, IncoreBlockOpsVerify(output))
  /\ pc' = "verified"
  /\ UNCHANGED <<program, fi, si, nid, tensor_to_tile, var_map, new_stmts, return_stmt,
                 new_params, new_return_types, new_return_exprs, num_added_outputs,
                 changed, incore_added_outputs, transformed_incore_funcs,
                 functions_phase1, functions_phase2, output>>

\* --- idle values of the other components
PipeIdle ==
  /\ passes_ = <<>> /\ verification_mode_ = "None" /\ initial_properties_ = {}
  /\ input_program = NoProgram /\ input_defects = {}
  /\ ppc = "idle" /\ pidx = 0 /\ current = NoProgram /\ defects = {}
  /\ current_props = {} /\ log = <<>>

EqIdle ==
  /\ lhs = NoStmt /\ rhs = NoStmt /\ enable_auto_mapping_ = FALSE
  /\ user_auto_mapping = FALSE /\ work = <<>>
  /\ lhs_to_rhs_var_map_ = EmptyMap /\ rhs_to_lhs_var_map_ = EmptyMap
  /\ eq_result = "idle" /\ last_var = <<>>

InitConv == ConvInit /\ PipeIdle /\ EqIdle /\ RegIdle

NextConv ==
  \/ Phase1Other \/ Phase1Incore \/ Phase1Done
  \/ LoadParam \/ LoadDone
  \/ BodyReturn \/ BodyPassThrough \/ BodyKeepAssign \/ BodyConvert \/ BodyDone
  \/ ReturnValue \/ ReturnDone
  \/ Phase2Incore \/ Phase2Other \/ Phase2Done
  \/ UcsReturn \/ UcsPassThrough \/ UcsKeepAssign \/ UcsCallSite \/ UcsDone
  \/ Verify

SpecConv == InitConv /\ [][NextConv]_vars

\* =========================================================================
\* Properties of ConvertTensorToBlockOps
\* =========================================================================
IsConvertibleTensorOp(call) ==
  /\ ~call.op_is_global
  /\ IsRegistered(call.op)
  /\ GetOpCategory(call.op) = "TensorOp"
  /\ HasConversion(BaselineConversions, call.op)

\* a convertible TensorOp call occurs somewhere in the expression / statement
RECURSIVE ExprHasTensorOp(_)
ExprHasTensorOp(e) ==
  CASE e.k = "Call" ->
         IsConvertibleTensorOp(e) \/ \E j \in DOMAIN e.args : ExprHasTensorOp(e.args[j])
    [] e.k = "MakeTuple" -> \E j \in DOMAIN e.elements : ExprHasTensorOp(e.elements[j])
    [] e.k = "TupleGetItemExpr" -> ExprHasTensorOp(e.tuple)
    [] IsBinaryExpr(e) -> ExprHasTensorOp(e.left) \/ ExprHasTensorOp(e.right)
    [] IsUnaryExpr(e) -> ExprHasTensorOp(e.operand)
    [] OTHER -> FALSE

RECURSIVE StmtHasTensorOp(_)
StmtHasTensorOp(stmt) ==
  CASE stmt.k = "AssignStmt" -> ExprHasTensorOp(stmt.value)
    [] stmt.k = "EvalStmt" -> ExprHasTensorOp(stmt.expr)
    [] stmt.k = "ReturnStmt" -> \E j \in DOMAIN stmt.value : ExprHasTensorOp(stmt.value[j])
    [] stmt.k = "SeqStmts" -> \E j \in DOMAIN stmt.stmts : StmtHasTensorOp(stmt.stmts[j])
    [] stmt.k = "IfStmt" -> StmtHasTensorOp(stmt.then_body)
    [] OTHER -> FALSE

IncoreFunctionsOf(prog) ==
  {prog.functions[j] : j \in {i \in DOMAIN prog.functions :
                                prog.functions[i].func_type = "InCore"}}
Errors(diags) == {j \in DOMAIN diags : diags[j].severity = "Error"}

\* C1: after the pass, no InCore function of the output contains a call of a
\* convertible TensorOp, and the IncoreBlockOps verifier reports no Error.
C1_NoTensorOpInIncore ==
  pc = "verified" =>
    /\ \A f \in IncoreFunctionsOf(output) : ~StmtHasTensorOp(f.body)
    /\ Errors(diagnostics) = {}

\* the run of C1's failing input: f(a) { tensor.add(a, a) as an EvalStmt; return a }
C1_EvalStmtInput ==
  Function("f", <<ParamA>>, <<T16>>,
           SeqStmts(<<EvalStmt(OpCall("tensor.add", <<ParamA, ParamA>>, T16, 1), StmtSpan(1)),
                      ReturnStmt(<<ParamA>>, StmtSpan(2))>>, FuncSpan(1)),
           FuncSpan(1), "InCore")
C1_EvalStmtVerified ==
  /\ pc = "verified"
  /\ program.functions[1] = C1_EvalStmtInput
  /\ Errors(diagnostics) # {}

\* --- C2
IsFlatAssignBody(func) ==
  LET b == BodyStmts(func)
  IN /\ Len(b) >= 1
     /\ b[Len(b)].k = "ReturnStmt"
     /\ \A j \in 1..(Len(b) - 1) : b[j].k = "AssignStmt"

\* the pass threw while TransformIncoreFunction was working
AbortedInTransform == pc = "abort" /\ Len(functions_phase1) < Len(program.functions)
AbortedInUpdate == pc = "abort" /\ Len(functions_phase1) = Len(program.functions)

TensorParams(func) ==
  SelectSeq(func.params, LAMBDA p : p.type.k = "TensorType")

IsLoadOf(stmt, p) ==
  /\ stmt.k = "AssignStmt"
  /\ stmt.var.name = p.name \o "_tile"
  /\ stmt.var.id >= FreshBase
  /\ stmt.var.type = TileType(p.type.shape, p.type.dtype)
  /\ stmt.value.k = "Call" /\ stmt.value.op = "block.load" /\ ~stmt.value.op_is_global
  /\ Len(stmt.value.args) = 3
  /\ stmt.value.args[1] = p
  /\ stmt.value.args[2].k = "MakeTuple"
  /\ Len(stmt.value.args[2].elements) = Len(p.type.shape)
  /\ \A j \in DOMAIN stmt.value.args[2].elements :
       stmt.value.args[2].elements[j] = ConstInt(0, "INT64")
  /\ stmt.value.args[3].k = "MakeTuple"
  /\ stmt.value.args[3].elements = p.type.shape
  /\ stmt.value.kwargs = <<<<"target_memory", "UB">>>>

IsStoreTo(stmt, i, out_param) ==
  /\ stmt.k = "AssignStmt"
  /\ stmt.var.name = "out_" \o ToString(i)
  /\ stmt.value.k = "Call" /\ stmt.value.op = "block.store" /\ ~stmt.value.op_is_global
  /\ Len(stmt.value.args) = 4
  /\ GetType(stmt.value.args[1]).k = "TileType"
  /\ stmt.value.args[4] = out_param
  /\ out_param.name = "out_" \o ToString(i)

\* orig is the input function, new the function TransformIncoreFunction made of
\* it, k its num_added_outputs
TransformShape(orig, new, k) ==
  LET tp == TensorParams(orig)
      L == Len(tp)
      b == BodyStmts(orig)
      n == Len(b) - 1
      out == IF new.body.k = "SeqStmts" THEN new.body.stmts ELSE <<>>
  IN /\ new.body.k = "SeqStmts"
     /\ Len(out) = L + n + k + 1
     /\ \A j \in 1..L : IsLoadOf(out[j], tp[j])
     /\ \A j \in 1..n :
          /\ out[L + j].k = "AssignStmt"
          /\ out[L + j].span = b[j].span
          /\ out[L + j].var.name \in {b[j].var.name, b[j].var.name \o "_tile"}
     /\ Len(new.params) = Len(orig.params) + k
     /\ \A j \in 1..k : IsStoreTo(out[L + n + j], j - 1, new.params[Len(orig.params) + j])
     /\ out[Len(out)].k = "ReturnStmt"
     /\ Len(out[Len(out)].value) = Len(b[Len(b)].value)
     /\ \A j \in 1..(Len(out) - 1) : out[j].k # "ReturnStmt"

\* the output the S2 scenario states for f(a) { t1 = tensor.add(a, a); return t1 }
S2Output ==
  LET span == FuncSpan(1)
      zeros == MakeTuple(<<ConstInt(0, "INT64")>>, span)
      shape == MakeTuple(<<DimSixteen>>, span)
      tile == TileType(<<DimSixteen>>, "FP32")
      a_tile == Var("a_tile", tile, span, FreshBase)
      t_tile == Var("t1_tile", tile, 0, FreshBase + 1)
      out_param == Var("out_0", T16, span, FreshBase + 2)
      out_var == Var("out_0", T16, span, FreshBase + 3)
  IN Function("f", <<ParamA, out_param>>, <<T16>>,
       SeqStmts(<<AssignStmt(a_tile,
                             Call("block.load", FALSE, <<ParamA, zeros, shape>>,
                                  <<<<"target_memory", "UB">>>>, tile, span), span),
                  AssignStmt(t_tile,
                             Call("block.add", FALSE, <<a_tile, a_tile>>, <<>>, tile,
                                  CallSpan(1)), StmtSpan(1)),
                  AssignStmt(out_var,
                             Call("block.store", FALSE, <<t_tile, zeros, shape, out_param>>,
                                  <<>>, T16, span), span),
                  ReturnStmt(<<out_var>>, StmtSpan(2))>>, span),
       span, "InCore")

\* the shape holds for every function TransformIncoreFunction has returned
C2_ShapeWhenReturned ==
  \A j \in DOMAIN functions_phase1 :
    (program.functions[j].func_type = "InCore" /\ IsFlatAssignBody(program.functions[j])) =>
      /\ TransformShape(program.functions[j], functions_phase1[j],
                        incore_added_outputs[program.functions[j].name])
      /\ program.functions[j] = CalleeAdd =>
           /\ functions_phase1[j] = S2Output
           /\ incore_added_outputs["f"] = 1

\* C2: TransformIncoreFunction turns every InCore function with a flat body of
\* AssignStmts and a final ReturnStmt into loads, the rewritten statements in
\* order, stores and one ReturnStmt; S2's function gives exactly S2's output.
C2_TransformProducesShape ==
  /\ C2_ShapeWhenReturned
  /\ AbortedInTransform => ~IsFlatAssignBody(program.functions[fi])

\* the run of C2's failing input: the pass threw inside TransformIncoreFunction on a
\* function with a flat body of AssignStmts
C2_AbortOnFlatBody ==
  /\ AbortedInTransform
  /\ IsFlatAssignBody(program.functions[fi])

\* --- C3
\* the statement UpdateCallSites is at is a call site v = G'(args) of an InCore
\* function that received added outputs
AtCallSite ==
  /\ InUcs
  /\ UcsStmt.k = "AssignStmt"
  /\ UcsStmt.value.k = "Call"
  /\ UcsStmt.value.op_is_global
  /\ UcsStmt.value.op \in DOMAIN incore_added_outputs
  /\ incore_added_outputs[UcsStmt.value.op] > 0

IsCreateFor(stmt, i, out_param) ==
  /\ stmt.k = "AssignStmt"
  /\ stmt.var.name = "out_" \o ToString(i)
  /\ stmt.var.type = TensorType(out_param.type.shape, out_param.type.dtype)
  /\ stmt.value.k = "Call" /\ stmt.value.op = "tensor.create" /\ ~stmt.value.op_is_global
  /\ Len(stmt.value.args) = 1
  /\ stmt.value.args[1].k = "MakeTuple"
  /\ stmt.value.args[1].elements = out_param.type.shape
  /\ stmt.value.kwargs = <<<<"dtype", out_param.type.dtype>>>>

\* what the step of UpdateCallSites over a call site has emitted
CallSiteEmitted ==
  LET assign == UcsStmt
      callee == transformed_incore_funcs[assign.value.op]
      k == incore_added_outputs[assign.value.op]
      base == Len(new_stmts)
      first_out == Len(callee.params) - k
      rtype == IF Len(callee.return_types) = 1 THEN callee.return_types[1]
               ELSE TupleType(callee.return_types)
      last == new_stmts'[base + k + 1]
  IN /\ pc' = "ucs" /\ si' = si + 1
     /\ Len(new_stmts') = base + k + 1
     /\ SubSeq(new_stmts', 1, base) = new_stmts
     /\ \A i \in 1..k : IsCreateFor(new_stmts'[base + i], i - 1, callee.params[first_out + i])
     /\ last.k = "AssignStmt"
     /\ last.span = assign.span
     /\ last.var.name = assign.var.name
     /\ last.var.id >= FreshBase /\ last.var.id # assign.var.id
     /\ last.var.type = rtype
     /\ last.value.k = "Call" /\ last.value.op = assign.value.op /\ last.value.op_is_global
     /\ last.value.type = rtype
     /\ last.value.args =
          [j \in DOMAIN assign.value.args |-> SubstituteExpr(assign.value.args[j], var_map)]
            \o [i \in 1..k |-> new_stmts'[base + i].var]

\* C3: at every top-level call site v = G'(args) of an InCore function with k > 0
\* added outputs, UpdateCallSites emits k tensor.create assignments out_0..out_{k-1}
\* and then the call, bound to a fresh Var named v, with the substituted arguments
\* followed by the out Vars and with the transformed callee's return type.
C3_CallSiteRewritten == [][AtCallSite => CallSiteEmitted]_vars

\* the run of C3's failing input: the pass threw at a call site of an InCore function
\* that received added outputs
C3_AbortAtCallSite ==
  /\ AbortedInUpdate
  /\ UcsStmt.k = "AssignStmt"
  /\ UcsStmt.value.k = "Call"
  /\ UcsStmt.value.op_is_global
  /\ incore_added_outputs[UcsStmt.value.op] > 0

\* the same, for the call sites at which no internal check fails
C3_CallSiteRewrittenUnlessAbort ==
  [][(AtCallSite /\ pc' # "abort") => CallSiteEmitted]_vars

\* =========================================================================
\* Passes, PassPipeline.Run and PassManager.run_passes
\* =========================================================================
PassProperties(required, produced, invalidated) ==
  [required |-> required, produced |-> produced, invalidated |-> invalidated]
NoProperties == PassProperties({}, {}, {})

kConvertToSSAProperties ==
  PassProperties({"TypeChecked"}, {"SSAForm"},
                 {"NormalizedStmtStructure", "FlattenedSingleStmt"})
kNormalizeStmtStructureProperties ==
  PassProperties({"TypeChecked"}, {"NormalizedStmtStructure"}, {"FlattenedSingleStmt"})
kFlattenSingleStmtProperties ==
  PassProperties({"TypeChecked"}, {"FlattenedSingleStmt"}, {"NormalizedStmtStructure"})

\* the func_type a Function gets when its constructor is given none
DefaultFuncType == "Opaque"

\* (variant: the function loses its parameters)
IdentityTransformNoParams(func) ==
  Function(func.name \o "_identity", <<>>, func.return_types, func.body, func.span,
           DefaultFuncType)

\* (variant: the function keeps its name)
IdentityTransformSameName(func) ==
  Function(func.name, func.params, func.return_types, func.body, func.span,
           DefaultFuncType)

\* the transform of the Identity pass
IdentityTransform(func) ==
  Function(func.name \o "_identity", func.params, func.return_types, func.body,
           func.span, DefaultFuncType)

\* A Pass: its name, its declared properties and what it does.  The transform of
\* a pass whose code is elsewhere is known only by the verifiers it satisfies
\* (fixes) or upsets (breaks) on its output.
Pass(name, properties, kind, fixes, breaks) ==
  [name |-> name, properties |-> properties, kind |-> kind, fixes |-> fixes,
   breaks |-> breaks]

Identity == Pass("Identity", NoProperties, "Identity", {}, {})
ConvertToSSA(ok) ==
  Pass("ConvertToSSA", kConvertToSSAProperties, "Other",
       IF ok THEN {"SSAForm"} ELSE {}, IF ok THEN {} ELSE {"SSAForm"})
NormalizeStmtStructure ==
  Pass("NormalizeStmtStructure", kNormalizeStmtStructureProperties, "Other",
       {"NormalizedStmtStructure"}, {"FlattenedSingleStmt"})
FlattenSingleStmt ==
  Pass("FlattenSingleStmt", kFlattenSingleStmtProperties, "Other",
       {"FlattenedSingleStmt"}, {"NormalizedStmtStructure"})
\* a user's pass that declares one property as produced and as invalidated
CustomPass(ok) ==
  Pass("Custom", PassProperties({"SSAForm"}, {"TypeChecked"}, {"TypeChecked", "SSAForm"}),
       "Other", IF ok THEN {"TypeChecked"} ELSE {}, IF ok THEN {} ELSE {"TypeChecked"})

\* CreateFunctionPass: the transform on every function, in order, in a new Program
FunctionPassApply(prog) ==
  Program([j \in DOMAIN prog.functions |-> IdentityTransform(prog.functions[j])],
          prog.name, prog.span)

\* pass(program): the program it returns, and the verifiers failing on that program
PassApply(p, prog) == IF p.kind = "Identity" THEN FunctionPassApply(prog) ELSE prog
PassDefects(p, d) == (d \ p.fixes) \cup p.breaks

\* (variant: BeforeAndAfter verifies only after)
VerifiesBeforeOnlyBefore(mode) == mode = "Before"

VerifiesBefore(mode) == mode \in {"Before", "BeforeAndAfter"}
VerifiesAfter(mode) == mode \in {"After", "BeforeAndAfter"}

\* (variant: invalidated properties are removed last)
UpdatePropertiesRemoveLast(state, p) ==
  (state \cup p.properties.produced) \ p.properties.invalidated

\* (variant: nothing is invalidated)
UpdatePropertiesAddOnly(state, p) == state \cup p.properties.produced

\* step 2c of Run
UpdateProperties(state, p) == (state \ p.properties.invalidated) \cup p.properties.produced

\* (variant: a property that is not tracked counts as an Error)
VerifyPropertiesOrMissing(props, d) == (props \cap d) \cup (props \ current_props)

\* the properties among props whose verifier reports an Error
VerifyProperties(props, d) == props \cap d

GetPassNames == [j \in DOMAIN passes_ |-> passes_[j].name]

\* --- the inputs
PipePasses ==
  {Identity, ConvertToSSA(TRUE), NormalizeStmtStructure, FlattenSingleStmt,
   CustomPass(TRUE), CustomPass(FALSE)}

RECURSIVE PassLists(_)
PassLists(n) ==
  IF n = 0 THEN {<<>>}
  ELSE PassLists(n - 1)
         \cup {Append(ps, q) : ps \in {l \in PassLists(n - 1) : Len(l) = n - 1},
                               q \in PipePasses}

\* the program of the PassManager test: func1(x) { x = y }, func2(x) { x = y }
TestFunction(name) ==
  Function(name, <<Var("x", S64, 0, 1)>>, <<S64>>,
           AssignStmt(Var("x", S64, 0, 1), Var("y", S64, 0, 2), 0), 0, DefaultFuncType)
TestProgram == Program(<<TestFunction("func1"), TestFunction("func2")>>, "test_program", 0)
PipePrograms == {TestProgram, Program(<<CalleeAdd, PlainCaller(CalleeAdd)>>, "prog", 1)}

PipeInit ==
  /\ passes_ \in PassLists(MaxPasses)
  /\ ppc \in {"start", "pm"}
  /\ verification_mode_ \in
       IF ppc = "start" THEN {"None", "Before", "After", "BeforeAndAfter"} ELSE {"None"}
  /\ initial_properties_ \in IF ppc = "start" THEN {{}, {"TypeChecked", "SSAForm"}} ELSE {{}}
  /\ input_program \in IF verification_mode_ = "None" THEN PipePrograms ELSE {TestProgram}
  /\ input_defects \in {{}, {"TypeChecked"}}
  /\ pidx = 0 /\ current = NoProgram /\ defects = {} /\ current_props = {}
  /\ log = <<>>

PipeOnly == UNCHANGED <<convVars, eqVars, regVars>>
PipeConfig == <<passes_, verification_mode_, initial_properties_, input_program,
                input_defects>>

\* --- PassPipeline.Run
\* step 1
RunBegin ==
  /\ PipeOnly
  /\ ppc = "start"
  /\ current_props' = initial_properties_
  /\ current' = input_program /\ defects' = input_defects
  /\ pidx' = 1 /\ ppc' = "before"
  /\ UNCHANGED <<PipeConfig, log>>

VerifyEvent(when, props) ==
  [ev |-> "verify", when |-> when, idx |-> pidx, props |-> props, program |-> current,
   defects |-> defects, tracked |-> current_props]

\* step 2a: the verifiers of p.required, on the current program
VerifyBefore ==
  /\ PipeOnly
  /\ ppc = "before" /\ pidx <= Len(passes_)
  /\ VerifiesBefore(verification_mode_)
  /\ LET required == passes_[pidx].properties.required
     IN /\ log' = Append(log, VerifyEvent("before", required))
        /\ ppc' = IF VerifyProperties(required, defects) # {} THEN "raised" ELSE "apply"
  /\ UNCHANGED <<PipeConfig, pidx, current, defects, current_props>>

SkipBefore ==
  /\ PipeOnly
  /\ ppc = "before" /\ pidx <= Len(passes_)
  /\ ~VerifiesBefore(verification_mode_)
  /\ ppc' = "apply"
  /\ UNCHANGED <<PipeConfig, pidx, current, defects, current_props, log>>

ApplyEvent ==
  [ev |-> "apply", when |-> "run", idx |-> pidx, props |-> {}, program |-> current,
   defects |-> defects, tracked |-> current_props]

\* steps 2b and 2c
ApplyPass ==
  /\ PipeOnly
  /\ ppc = "apply"
  /\ current' = PassApply(passes_[pidx], current)
  /\ defects' = PassDefects(passes_[pidx], defects)
  /\ current_props' = UpdateProperties(current_props, passes_[pidx])
  /\ log' = Append(log, ApplyEvent)
  /\ ppc' = "after"
  /\ UNCHANGED <<PipeConfig, pidx>>

\* step 2d: the verifiers of p.produced, on the pass's output
VerifyAfter ==
  /\ PipeOnly
  /\ ppc = "after"
  /\ VerifiesAfter(verification_mode_)
  /\ LET produced == passes_[pidx].properties.produced
     IN /\ log' = Append(log, VerifyEvent("after", produced))
        /\ IF VerifyProperties(produced, defects) # {}
           THEN ppc' = "raised" /\ pidx' = pidx
           ELSE ppc' = "before" /\ pidx' = pidx + 1
  /\ UNCHANGED <<PipeConfig, current, defects, current_props>>

SkipAfter ==
  /\ PipeOnly
  /\ ppc = "after"
  /\ ~VerifiesAfter(verification_mode_)
  /\ ppc' = "before" /\ pidx' = pidx + 1
  /\ UNCHANGED <<PipeConfig, current, defects, current_props, log>>

\* step 3
RunReturn ==
  /\ PipeOnly
  /\ ppc = "before" /\ pidx > Len(passes_)
  /\ ppc' = "done"
  /\ UNCHANGED <<PipeConfig, pidx, current, defects, current_props, log>>

\* --- PassManager.run_passes
PmBegin ==
  /\ PipeOnly
  /\ ppc = "pm" /\ pidx = 0
  /\ current' = input_program /\ defects' = input_defects
  /\ pidx' = 1
  /\ UNCHANGED <<PipeConfig, ppc, current_props, log>>

PmApply ==
  /\ PipeOnly
  /\ ppc = "pm" /\ pidx >= 1 /\ pidx <= Len(passes_)
  /\ current' = PassApply(passes_[pidx], current)
  /\ defects' = PassDefects(passes_[pidx], defects)
  /\ log' = Append(log, ApplyEvent)
  /\ pidx' = pidx + 1
  /\ UNCHANGED <<PipeConfig, ppc, current_props>>

PmReturn ==
  /\ PipeOnly
  /\ ppc = "pm" /\ pidx > Len(passes_)
  /\ ppc' = "pm_done"
  /\ UNCHANGED <<PipeConfig, pidx, current, defects, current_props, log>>

InitPipe == ConvIdle /\ PipeInit /\ EqIdle /\ RegIdle

NextPipe ==
  \/ RunBegin \/ VerifyBefore \/ SkipBefore \/ ApplyPass \/ VerifyAfter \/ SkipAfter
  \/ RunReturn
  \/ PmBegin \/ PmApply \/ PmReturn

SpecPipe == InitPipe /\ [][NextPipe]_vars

\* =========================================================================
\* Properties of the pipeline
\* =========================================================================
InRun == ppc \in {"before", "apply", "after", "raised", "done"}
Applies == {k \in DOMAIN log : log[k].ev = "apply"}
Verifies == {k \in DOMAIN log : log[k].ev = "verify"}
AppliedCount == Cardinality(Applies)

\* (state minus invalidated) union produced, folded over a pass list
RECURSIVE TrackedFold(_, _)
TrackedFold(state, ps) ==
  IF ps = <<>> THEN state
  ELSE TrackedFold((state \ Head(ps).properties.invalidated)
                     \cup Head(ps).properties.produced, Tail(ps))

\* C4: the tracked property set of Run is, after every prefix of the pass list,
\* the fold of (state minus invalidated) union produced from the initial set; right
\* after pass p all of p.produced is tracked.
C4_TrackedSetIsFold ==
  InRun =>
    /\ current_props = TrackedFold(initial_properties_, SubSeq(passes_, 1, AppliedCount))
    /\ ppc = "after" => passes_[pidx].properties.produced \subseteq current_props

C4_SecondPassProducedAndInvalidated ==
  /\ ppc = "after" /\ pidx = 2
  /\ initial_properties_ # {}
  /\ passes_[1].properties.invalidated \cap initial_properties_ # {}
  /\ passes_[2].properties.produced \cap passes_[2].properties.invalidated # {}

\* C5: with Before / BeforeAndAfter the verifiers of p.required run on the program
\* about to be passed to p; with After / BeforeAndAfter those of p.produced run on
\* p's output before the next pass; with None none runs; an Error ends the run at
\* once: the verification that found it is the last thing Run did.
C5_VerificationOrder ==
  InRun =>
    /\ verification_mode_ = "None" => Verifies = {}
    /\ \A k \in Verifies :
         /\ log[k].when = "before" => VerifiesBefore(verification_mode_)
         /\ log[k].when = "after" => VerifiesAfter(verification_mode_)
         /\ (log[k].props \cap log[k].defects # {}) => (k = Len(log) /\ ppc = "raised")
    /\ ppc = "raised" =>
         /\ log # <<>> /\ log[Len(log)].ev = "verify"
         /\ log[Len(log)].props \cap log[Len(log)].defects # {}
    /\ \A k \in Applies :
         LET p == passes_[log[k].idx]
         IN /\ verification_mode_ \in {"Before", "BeforeAndAfter"} =>
                 /\ k > 1
                 /\ log[k - 1].ev = "verify" /\ log[k - 1].when = "before"
                 /\ log[k - 1].idx = log[k].idx
                 /\ log[k - 1].props = p.properties.required
                 /\ log[k - 1].program = log[k].program
                 /\ log[k - 1].defects = log[k].defects
                 /\ log[k - 1].props \cap log[k - 1].defects = {}
            /\ verification_mode_ \in {"After", "BeforeAndAfter"} =>
                 IF k = Len(log) THEN ppc = "after"
                 ELSE /\ log[k + 1].ev = "verify" /\ log[k + 1].when = "after"
                      /\ log[k + 1].idx = log[k].idx
                      /\ log[k + 1].props = p.properties.produced
                      /\ log[k + 1].program = PassApply(p, log[k].program)
                      /\ log[k + 1].defects = PassDefects(p, log[k].defects)

\* a Before check fails before the second pass
C5_RaisedBeforeSecondPass ==
  /\ ppc = "raised" /\ pidx = 2
  /\ verification_mode_ = "BeforeAndAfter"
  /\ log[Len(log)].when = "before"
  /\ AppliedCount = 1

\* C6: before a pass, Run raises exactly when the verifier of a required property
\* reports an Error on the current program; a required property that is not in the
\* tracked set changes nothing, and the pass is then applied.
C6_MissingPropertyIsNoError ==
  [][/\ (ppc = "before" /\ pidx <= Len(passes_) /\ VerifiesBefore(verification_mode_)) =>
          LET required == passes_[pidx].properties.required
          IN IF required \cap defects = {} THEN ppc' = "apply" ELSE ppc' = "raised"
     /\ ppc = "apply" =>
          /\ ppc' = "after"
          /\ current' = PassApply(passes_[pidx], current)
          /\ log' = Append(log, ApplyEvent)]_vars

\* a pass was applied under Before verification although a property it requires
\* was not tracked
C6_AppliedWithMissingProperty ==
  /\ VerifiesBefore(verification_mode_)
  /\ \E k \in Applies :
       ~(passes_[log[k].idx].properties.required \subseteq log[k].tracked)

\* pn(...p1(program)...)
RECURSIVE ApplyInOrder(_, _)
ApplyInOrder(ps, prog) ==
  IF ps = <<>> THEN prog ELSE ApplyInOrder(Tail(ps), PassApply(Head(ps), prog))
RECURSIVE DefectsInOrder(_, _)
DefectsInOrder(ps, d) ==
  IF ps = <<>> THEN d ELSE DefectsInOrder(Tail(ps), PassDefects(Head(ps), d))

EqualType(lhs_type, rhs_type) == lhs_type = rhs_type

\* EqualVar on given maps: its result and the two maps after it
EqualVarIn(lhs_var, rhs_var, auto, l2r, r2l) ==
  LET same == [result |-> TRUE, l2r |-> l2r, r2l |-> r2l]
      no == [result |-> FALSE, l2r |-> l2r, r2l |-> r2l]
  IN IF ~auto
     THEN (IF lhs_var.id = rhs_var.id THEN same ELSE no)
     ELSE IF ~EqualType(lhs_var.type, rhs_var.type) THEN no
     ELSE IF lhs_var.id \in DOMAIN l2r
          THEN (IF l2r[lhs_var.id] = rhs_var.id THEN same ELSE no)
     ELSE IF rhs_var.id \in DOMAIN r2l /\ r2l[rhs_var.id] # lhs_var.id
          THEN no
     ELSE [result |-> TRUE,
           l2r |-> MapPut(l2r, lhs_var.id, rhs_var.id),
           r2l |-> MapPut(r2l, rhs_var.id, lhs_var.id)]

\* (variant: Vars are compared by pointer whatever the flag says)
EqualVarPointerOnly(lhs_var, rhs_var) ==
  [result |-> lhs_var.id = rhs_var.id,
   l2r |-> lhs_to_rhs_var_map_, r2l |-> rhs_to_lhs_var_map_]

\* EqualVar of the comparison in progress
EqualVar(lhs_var, rhs_var) ==
  EqualVarIn(lhs_var, rhs_var, enable_auto_mapping_, lhs_to_rhs_var_map_,
             rhs_to_lhs_var_map_)

\* (variant: no reference-equality fast path)
SamePointerNever(lhs_node, rhs_node) == FALSE

\* lhs.get() == rhs.get().  Vars are the nodes the two sides may share; a shared
\* node of another kind compares like its copy, all its Vars being shared.
SamePointer(lhs_node, rhs_node) ==
  lhs_node.k = "Var" /\ rhs_node.k = "Var" /\ lhs_node.id = rhs_node.id

\* Equal as a function of the two nodes and of the comparer's fields (the flag
\* and the two maps); ok is false once a comparison has returned false.
RECURSIVE Equal(_, _, _)
Equal(lhs_node, rhs_node, st) ==
  IF ~st.ok \/ SamePointer(lhs_node, rhs_node) THEN st
  ELSE IF lhs_node.k # rhs_node.k THEN [st EXCEPT !.ok = FALSE]
  ELSE CASE lhs_node.k = "Var" ->
              LET res == EqualVarIn(lhs_node, rhs_node, st.auto, st.l2r, st.r2l)
              IN [ok |-> res.result, auto |-> st.auto, l2r |-> res.l2r, r2l |-> res.r2l]
         [] lhs_node.k = "ConstInt" ->
              [st EXCEPT !.ok = lhs_node.value = rhs_node.value
                                  /\ lhs_node.dtype = rhs_node.dtype]
         [] lhs_node.k = "Add" ->
              IF ~EqualType(lhs_node.type, rhs_node.type) THEN [st EXCEPT !.ok = FALSE]
              ELSE Equal(lhs_node.right, rhs_node.right,
                         Equal(lhs_node.left, rhs_node.left, st))
         [] lhs_node.k = "AssignStmt" ->
              LET def == Equal(lhs_node.var, rhs_node.var, [st EXCEPT !.auto = TRUE])
              IN Equal(lhs_node.value, rhs_node.value, [def EXCEPT !.auto = st.auto])
         [] OTHER -> [st EXCEPT !.ok = FALSE]

\* structural_equal(lhs, rhs, enable_auto_mapping): a new comparer, then Equal
structural_equal(lhs_node, rhs_node, enable_auto_mapping) ==
  Equal(lhs_node, rhs_node,
        [ok |-> TRUE, auto |-> enable_auto_mapping, l2r |-> EmptyMap, r2l |-> EmptyMap]).ok

\* the comparisons still to do
CmpItem(l, r) == [t |-> "cmp", l |-> l, r |-> r, v |-> FALSE]
DefItem(l, r) == [t |-> "def", l |-> l, r |-> r, v |-> FALSE]
RestoreItem(v) == [t |-> "restore", l |-> NoStmt, r |-> NoStmt, v |-> v]

EqOnly == UNCHANGED <<convVars, pipeVars, regVars>>
EqFrame == UNCHANGED <<lhs, rhs, user_auto_mapping>>
EqAtCmp == eq_result = "running" /\ work # <<>> /\ Head(work).t = "cmp"
EqCall(var_l, var_r, res) ==
  [lhs |-> var_l, rhs |-> var_r, auto |-> enable_auto_mapping_,
   l2r |-> lhs_to_rhs_var_map_, r2l |-> rhs_to_lhs_var_map_, result |-> res]

\* Equal, fast path: same pointer
EqFastPath ==
  /\ EqOnly /\ EqAtCmp
  /\ SamePointer(Head(work).l, Head(work).r)
  /\ work' = Tail(work)
  /\ UNCHANGED <<enable_auto_mapping_, lhs_to_rhs_var_map_, rhs_to_lhs_var_map_,
                 eq_result, last_var>>
  /\ EqFrame

\* Equal: the TypeNames differ
EqTypeNameDiffers ==
  /\ EqOnly /\ EqAtCmp
  /\ ~SamePointer(Head(work).l, Head(work).r)
  /\ Head(work).l.k # Head(work).r.k
  /\ eq_result' = "false"
  /\ UNCHANGED <<work, enable_auto_mapping_, lhs_to_rhs_var_map_, rhs_to_lhs_var_map_,
                 last_var>>
  /\ EqFrame

EqSameKind(kind) ==
  /\ EqAtCmp
  /\ ~SamePointer(Head(work).l, Head(work).r)
  /\ Head(work).l.k = kind /\ Head(work).r.k = kind

\* Equal dispatches a Var pair to EqualVar
EqVar ==
  /\ EqOnly /\ EqSameKind("Var")
  /\ LET res == EqualVar(Head(work).l, Head(work).r)
     IN /\ lhs_to_rhs_var_map_' = res.l2r
        /\ rhs_to_lhs_var_map_' = res.r2l
        /\ last_var' = <<EqCall(Head(work).l, Head(work).r, res.result)>>
        /\ IF res.result THEN work' = Tail(work) /\ UNCHANGED eq_result
           ELSE eq_result' = "false" /\ UNCHANGED work
  /\ UNCHANGED enable_auto_mapping_
  /\ EqFrame

\* ConstInt: value and dtype are UsualFields
EqConstInt ==
  /\ EqOnly /\ EqSameKind("ConstInt")
  /\ IF Head(work).l.value = Head(work).r.value /\ Head(work).l.dtype = Head(work).r.dtype
     THEN work' = Tail(work) /\ UNCHANGED eq_result
     ELSE eq_result' = "false" /\ UNCHANGED work
  /\ UNCHANGED <<enable_auto_mapping_, lhs_to_rhs_var_map_, rhs_to_lhs_var_map_, last_var>>
  /\ EqFrame

\* BinaryExpr: type, left and right are UsualFields
EqBinaryExpr ==
  /\ EqOnly /\ EqSameKind("Add")
  /\ LET l == Head(work).l
         r == Head(work).r
     IN IF EqualType(l.type, r.type)
        THEN /\ work' = <<CmpItem(l.left, r.left), CmpItem(l.right, r.right)>> \o Tail(work)
             /\ UNCHANGED eq_result
        ELSE eq_result' = "false" /\ UNCHANGED work
  /\ UNCHANGED <<enable_auto_mapping_, lhs_to_rhs_var_map_, rhs_to_lhs_var_map_, last_var>>
  /\ EqFrame

\* AssignStmt: var is a DefField, value a UsualField
EqAssignStmt ==
  /\ EqOnly /\ EqSameKind("AssignStmt")
  /\ LET l == Head(work).l
         r == Head(work).r
     IN work' = <<DefItem(l.var, r.var), CmpItem(l.value, r.value)>> \o Tail(work)
  /\ UNCHANGED <<enable_auto_mapping_, lhs_to_rhs_var_map_, rhs_to_lhs_var_map_,
                 eq_result, last_var>>
  /\ EqFrame

\* VisitDefField: the flag is saved and forced to true around the field
EqEnterDefField ==
  /\ EqOnly
  /\ eq_result = "running" /\ work # <<>> /\ Head(work).t = "def"
  /\ work' = <<CmpItem(Head(work).l, Head(work).r), RestoreItem(enable_auto_mapping_)>>
               \o Tail(work)
  /\ enable_auto_mapping_' = TRUE
  /\ UNCHANGED <<lhs_to_rhs_var_map_, rhs_to_lhs_var_map_, eq_result, last_var>>
  /\ EqFrame

\* (variant: the flag stays forced after the field)
EqLeaveDefFieldKeepsFlag ==
  /\ EqOnly
  /\ eq_result = "running" /\ work # <<>> /\ Head(work).t = "restore"
  /\ enable_auto_mapping_' = TRUE
  /\ work' = Tail(work)
  /\ UNCHANGED <<lhs_to_rhs_var_map_, rhs_to_lhs_var_map_, eq_result, last_var>>
  /\ EqFrame

EqLeaveDefField ==
  /\ EqOnly
  /\ eq_result = "running" /\ work # <<>> /\ Head(work).t = "restore"
  /\ enable_auto_mapping_' = Head(work).v
  /\ work' = Tail(work)
  /\ UNCHANGED <<lhs_to_rhs_var_map_, rhs_to_lhs_var_map_, eq_result, last_var>>
  /\ EqFrame

\* every comparison returned true
EqReturnTrue ==
  /\ EqOnly
  /\ eq_result = "running" /\ work = <<>>
  /\ eq_result' = "true"
  /\ UNCHANGED <<work, enable_auto_mapping_, lhs_to_rhs_var_map_, rhs_to_lhs_var_map_,
                 last_var>>
  /\ EqFrame

\* --- structural_hash.  A hash value is kept as the text of what was folded
\* into it, so two hashes are equal exactly when the same values were combined
\* in the same order.
hash_combine(seed, value) == ((("(" \o seed) \o ",") \o value) \o ")"

RECURSIVE HashFold(_, _, _)
HashFold(Hash(_), seed, items) ==
  IF items = <<>> THEN seed
  ELSE HashFold(Hash, hash_combine(seed, Hash(Head(items))), Tail(items))

HashDim(dim) == ToString(dim.value)
RECURSIVE HashType(_)
HashType(type) ==
  CASE type.k = "ScalarType" -> hash_combine("ScalarType", type.dtype)
    [] type.k \in {"TensorType", "TileType"} ->
         hash_combine(HashFold(HashDim, type.k, type.shape), type.dtype)
    [] type.k = "TupleType" -> HashFold(HashType, "TupleType", type.types)
    [] OTHER -> "NullType"

\* a Var hashes its type when auto-mapping is on, else its identity
HashVar(var, enable_auto_mapping) ==
  IF enable_auto_mapping THEN hash_combine("Var", HashType(var.type))
  ELSE hash_combine("Var", "#" \o ToString(var.id))

RECURSIVE structural_hash(_, _)
structural_hash(node, enable_auto_mapping) ==
  CASE node.k = "Var" -> HashVar(node, enable_auto_mapping)
    [] node.k = "ConstInt" ->
         hash_combine(hash_combine("ConstInt", ToString(node.value)), node.dtype)
    [] node.k = "Add" ->
         hash_combine(hash_combine(hash_combine("Add", HashType(node.type)),
                                   structural_hash(node.left, enable_auto_mapping)),
                      structural_hash(node.right, enable_auto_mapping))
    [] node.k = "AssignStmt" ->
         hash_combine(hash_combine("AssignStmt",
                                   structural_hash(node.var, enable_auto_mapping)),
                      structural_hash(node.value, enable_auto_mapping))

\* --- the inputs: expressions and assignments over a few Vars
EqVarNode(i) == Var("v" \o ToString(i), S64, 0, i)
OtherTypeVar == Var("w", ScalarType("FP32"), 0, NumVars + 1)
One == ConstInt(1, "INT64")
EqLeaves(n) == {EqVarNode(i) : i \in 1..n} \cup {One}
EqExprs(n) ==
  EqLeaves(n) \cup {Add(a, b, S64, 0) : a \in EqLeaves(n), b \in EqLeaves(n)}
EqNodes(n) ==
  EqExprs(n) \cup {AssignStmt(EqVarNode(i), e, 0) : i \in 1..n, e \in EqExprs(n)}

\* clone(n): a copy of n made of new nodes; every Var of n is copied once, so the
\* copy has new Var objects of the same names and types
RECURSIVE Clone(_)
Clone(node) ==
  CASE node.k = "Var" -> Var(node.name, node.type, node.span, node.id + NumVars + 1)
    [] node.k = "Add" -> Add(Clone(node.left), Clone(node.right), node.type, node.span)
    [] node.k = "AssignStmt" -> AssignStmt(Clone(node.var), Clone(node.value), node.span)
    [] OTHER -> node

EqInit ==
  /\ lhs \in EqNodes(NumVars - 1)
  /\ rhs \in EqNodes(NumVars) \cup {OtherTypeVar, ConstInt(2, "INT64"), Clone(lhs)}
  /\ user_auto_mapping \in BOOLEAN
  /\ enable_auto_mapping_ = user_auto_mapping
  /\ work = <<CmpItem(lhs, rhs)>>
  /\ lhs_to_rhs_var_map_ = EmptyMap /\ rhs_to_lhs_var_map_ = EmptyMap
  /\ eq_result = "running" /\ last_var = <<>>

InitEq == ConvIdle /\ PipeIdle /\ EqInit /\ RegIdle

NextEq ==
  \/ EqFastPath \/ EqTypeNameDiffers \/ EqVar \/ EqConstInt \/ EqBinaryExpr
  \/ EqAssignStmt \/ EqEnterDefField \/ EqLeaveDefField \/ EqReturnTrue

SpecEq == InitEq /\ [][NextEq]_vars

\* =========================================================================
\* Properties of structural_equal and structural_hash
\* =========================================================================
EqFinished == eq_result \in {"true", "false"}

\* C8: structural_equal(a, b, m) implies structural_hash(a, m) = structural_hash(b, m),
\* for both values of m and also for nodes with definition fields.
C8_EqualImpliesEqualHash ==
  eq_result = "true" =>
    structural_hash(lhs, user_auto_mapping) = structural_hash(rhs, user_auto_mapping)

\* the same law for expressions, which have no definition field
C8_EqualImpliesEqualHashOfExprs ==
  (eq_result = "true" /\ lhs.k # "AssignStmt") =>
    structural_hash(lhs, user_auto_mapping) = structural_hash(rhs, user_auto_mapping)

\* the run of C8's failing input: v1 = 1 against v2 = 1, auto-mapping off
C8_AssignOfDistinctVarsEqual ==
  /\ eq_result = "true" /\ ~user_auto_mapping
  /\ lhs = AssignStmt(EqVarNode(1), One, 0)
  /\ rhs = AssignStmt(EqVarNode(2), One, 0)

\* --- C9
IsExpr(node) == node.k \in {"Var", "ConstInt", "Add"}

\* r is l with occurrences of the Var x replaced by the Var y
RECURSIVE ReplacedIn(_, _, _, _)
ReplacedIn(l, r, x, y) ==
  CASE l.k = "Var" /\ r.k = "Var" -> l.id = r.id \/ (l.id = x.id /\ r.id = y.id)
    [] l.k = "ConstInt" /\ r.k = "ConstInt" -> l = r
    [] l.k = "Add" /\ r.k = "Add" ->
         /\ l.type = r.type
         /\ ReplacedIn(l.left, r.left, x, y)
         /\ ReplacedIn(l.right, r.right, x, y)
    [] OTHER -> FALSE

DifferByOneVar ==
  /\ IsExpr(lhs) /\ IsExpr(rhs) /\ lhs # rhs
  /\ \E i \in 1..NumVars, j \in 1..NumVars :
       /\ i # j
       /\ EqVarNode(i).type = EqVarNode(j).type
       /\ ReplacedIn(lhs, rhs, EqVarNode(i), EqVarNode(j))

MutuallyInverse(l2r, r2l) ==
  /\ \A a \in DOMAIN l2r : l2r[a] \in DOMAIN r2l /\ r2l[l2r[a]] = a
  /\ \A b \in DOMAIN r2l : r2l[b] \in DOMAIN l2r /\ l2r[r2l[b]] = b

\* the call of EqualVar pairs a Var that the maps pair with another one
Inconsistent(call) ==
  \/ call.lhs.id \in DOMAIN call.l2r /\ call.l2r[call.lhs.id] # call.rhs.id
  \/ call.rhs.id \in DOMAIN call.r2l /\ call.r2l[call.rhs.id] # call.lhs.id

MapsStayInverse ==
  /\ MutuallyInverse(lhs_to_rhs_var_map_, rhs_to_lhs_var_map_)
  /\ \A j \in DOMAIN last_var :
       (last_var[j].auto /\ Inconsistent(last_var[j])) => ~last_var[j].result

IsSum(node, a, b) == node = Add(a, b, S64, 0)

\* C10: with auto_map = true the two Var maps are mutually inverse after every
\* EqualVar step, EqualVar returns false when a Var would get a second partner, and
\* so x + x is not equal to y + z for distinct y, z, while it is equal to y + y.
C10_BijectiveVarMapping ==
  /\ MapsStayInverse
  /\ (EqFinished /\ user_auto_mapping) =>
       \A x \in 1..NumVars, y \in 1..NumVars, z \in 1..NumVars :
         /\ (y # z /\ IsSum(lhs, EqVarNode(x), EqVarNode(x))
                   /\ IsSum(rhs, EqVarNode(y), EqVarNode(z))) => eq_result = "false"
         /\ (IsSum(lhs, EqVarNode(x), EqVarNode(x))
               /\ IsSum(rhs, EqVarNode(y), EqVarNode(y))) => eq_result = "true"

\* the same, for x, y, z that are three different Vars
C10_BijectiveVarMappingOfDistinctVars ==
  /\ MapsStayInverse
  /\ (EqFinished /\ user_auto_mapping) =>
       \A x \in 1..NumVars, y \in 1..NumVars, z \in 1..NumVars :
         /\ (y # z /\ x # y /\ x # z /\ IsSum(lhs, EqVarNode(x), EqVarNode(x))
                   /\ IsSum(rhs, EqVarNode(y), EqVarNode(z))) => eq_result = "false"
         /\ (IsSum(lhs, EqVarNode(x), EqVarNode(x))
               /\ IsSum(rhs, EqVarNode(y), EqVarNode(y))) => eq_result = "true"

\* the run of C10's failing input: v1 + v1 against v1 + v2, auto-mapping on
C10_SharedVarSumEqual ==
  /\ eq_result = "true" /\ user_auto_mapping
  /\ IsSum(lhs, EqVarNode(1), EqVarNode(1))
  /\ IsSum(rhs, EqVarNode(1), EqVarNode(2))

\* --- C11
\* the function agrees with the comparison done step by step
StepsAgreeWithFunction ==
  EqFinished => (eq_result = "true") = structural_equal(lhs, rhs, user_auto_mapping)

\* the Vars that stand at the same place in l and in r
RECURSIVE VarPairs(_, _)
VarPairs(l, r) ==
  CASE l.k = "Var" /\ r.k = "Var" -> {<<l.id, r.id>>}
    [] l.k = "Add" /\ r.k = "Add" ->
         VarPairs(l.left, r.left) \cup VarPairs(l.right, r.right)
    [] OTHER -> {}

OneToOne(pairs) == \A p \in pairs, q \in pairs : (p[1] = q[1]) <=> (p[2] = q[2])

RECURSIVE VarsOf(_)
VarsOf(node) ==
  CASE node.k = "Var" -> {node.id}
    [] node.k = "Add" -> VarsOf(node.left) \cup VarsOf(node.right)
    [] OTHER -> {}

\* C11: with auto_map = true structural_equal is an equivalence up to a bijective
\* renaming of Vars: for expressions a, b, c (sharing Var nodes or not), a equal to
\* b and a equal to c imply b equal to c, and when a equals b no two distinct Vars
\* of one side stand against the same Var of the other side.
C11_EquivalenceUpToRenaming ==
  (eq_result = "true" /\ user_auto_mapping /\ IsExpr(lhs) /\ IsExpr(rhs)) =>
    /\ \A c \in EqExprs(NumVars) :
         structural_equal(lhs, c, TRUE) => structural_equal(rhs, c, TRUE)
    /\ OneToOne(VarPairs(lhs, rhs))

\* the same, for expressions no two of which share a Var
C11_EquivalenceOfDisjointExprs ==
  (eq_result = "true" /\ user_auto_mapping /\ IsExpr(lhs) /\ IsExpr(rhs)
     /\ VarsOf(lhs) \cap VarsOf(rhs) = {}) =>
    /\ \A c \in EqExprs(NumVars) :
         (VarsOf(c) \cap (VarsOf(lhs) \cup VarsOf(rhs)) = {}
            /\ structural_equal(lhs, c, TRUE)) => structural_equal(rhs, c, TRUE)
    /\ OneToOne(VarPairs(lhs, rhs))

\* the run of C11's failing input: v1 + v2 against v1 + v1, auto-mapping on
C11_TwoVarsAgainstOne ==
  /\ eq_result = "true" /\ user_auto_mapping
  /\ IsSum(lhs, EqVarNode(1), EqVarNode(2))
  /\ IsSum(rhs, EqVarNode(1), EqVarNode(1))

\* --- C12
\* C12: for every node n and both auto_map values, structural_hash(n, auto_map) =
\* structural_hash(clone(n), auto_map), clone(n) being a copy made of new nodes,
\* new Var objects included.
C12_HashOfClone ==
  \A m \in BOOLEAN : structural_hash(lhs, m) = structural_hash(Clone(lhs), m)

\* the same for auto_map = true only
C12_HashOfCloneWithAutoMapping ==
  structural_hash(lhs, TRUE) = structural_hash(Clone(lhs), TRUE)

\* the same for nodes without a Var
C12_HashOfCloneWithoutVars ==
  (lhs.k # "AssignStmt" /\ VarsOf(lhs) = {}) =>
    \A m \in BOOLEAN : structural_hash(lhs, m) = structural_hash(Clone(lhs), m)

\* the run of C12's failing input: v1 = 1 against its clone, auto-mapping off; the
\* two are structurally equal and hash differently
C12_AssignEqualToClone ==
  /\ eq_result = "true" /\ ~user_auto_mapping
  /\ lhs = AssignStmt(EqVarNode(1), One, 0) /\ rhs = Clone(lhs)
  /\ structural_hash(lhs, FALSE) # structural_hash(rhs, FALSE)

\* --- C17
\* TransformIncoreFunction is at an assignment whose value is a Call of an op that
\* has no conversion
AtOpaqueAssign ==
  /\ InBody /\ BodyStmt.k = "AssignStmt" /\ BodyStmt.value.k = "Call"
  /\ ~BodyStmt.value.op_is_global
  /\ ~HasConversion(BaselineConversions, BodyStmt.value.op)

\* the arguments that are Vars with a name in the tensor-to-tile map
ReplacedArgs(call) ==
  {j \in DOMAIN call.args :
     call.args[j].k = "Var" /\ call.args[j].name \in DOMAIN tensor_to_tile}

OpaqueAssignKept ==
  LET assign == BodyStmt
      call == assign.value
      out == new_stmts'[Len(new_stmts')]
  IN /\ pc' = "body" /\ si' = si + 1
     /\ Len(new_stmts') = Len(new_stmts) + 1
     /\ IF ReplacedArgs(call) = {}
        THEN out = assign /\ tensor_to_tile' = tensor_to_tile
        ELSE /\ out.k = "AssignStmt" /\ out.span = assign.span
             /\ out.value.k = "Call"
             /\ out.value.op = call.op /\ out.value.op_is_global = call.op_is_global
             /\ out.value.kwargs = call.kwargs
             /\ out.value.type = call.type /\ out.value.span = call.span
             /\ DOMAIN out.value.args = DOMAIN call.args
             /\ \A j \in DOMAIN call.args :
                  out.value.args[j] =
                    IF j \in ReplacedArgs(call) THEN tensor_to_tile[call.args[j].name]
                    ELSE call.args[j]
             /\ out.var.name = assign.var.name /\ out.var.type = call.type
             /\ out.var.id = nid /\ out.var.id # assign.var.id
             /\ tensor_to_tile' = MapPut(tensor_to_tile, assign.var.name, out.var)

RECURSIVE SumOver(_, _)
SumOver(Count(_), items) ==
  IF items = <<>> THEN 0 ELSE Count(Head(items)) + SumOver(Count, Tail(items))

\* how many Calls of a convertible TensorOp occur in an expression / a statement
RECURSIVE CountTensorOpsExpr(_)
CountTensorOpsExpr(e) ==
  CASE e.k = "Call" ->
         (IF IsConvertibleTensorOp(e) THEN 1 ELSE 0) + SumOver(CountTensorOpsExpr, e.args)
    [] e.k = "MakeTuple" -> SumOver(CountTensorOpsExpr, e.elements)
    [] e.k = "TupleGetItemExpr" -> CountTensorOpsExpr(e.tuple)
    [] IsBinaryExpr(e) -> CountTensorOpsExpr(e.left) + CountTensorOpsExpr(e.right)
    [] IsUnaryExpr(e) -> CountTensorOpsExpr(e.operand)
    [] OTHER -> 0

RECURSIVE CountTensorOpsStmt(_)
CountTensorOpsStmt(stmt) ==
  CASE stmt.k = "AssignStmt" -> CountTensorOpsExpr(stmt.value)
    [] stmt.k = "EvalStmt" -> CountTensorOpsExpr(stmt.expr)
    [] stmt.k = "ReturnStmt" -> SumOver(CountTensorOpsExpr, stmt.value)
    [] stmt.k = "SeqStmts" -> SumOver(CountTensorOpsStmt, stmt.stmts)
    [] stmt.k = "IfStmt" ->
         CountTensorOpsExpr(stmt.condition) + CountTensorOpsStmt(stmt.then_body)
    [] OTHER -> 0

IncoreBody(func) == IF func.func_type = "InCore" THEN func.body ELSE NoStmt
CountTensorOpsInIncore(prog) ==
  SumOver(CountTensorOpsStmt, [j \in DOMAIN prog.functions |-> IncoreBody(prog.functions[j])])

\* the statements of a body whose own value / expression is a Call of a
\* convertible TensorOp
IsTensorOpStmt(stmt) ==
  \/ stmt.k = "AssignStmt" /\ stmt.value.k = "Call" /\ IsConvertibleTensorOp(stmt.value)
  \/ stmt.k = "EvalStmt" /\ stmt.expr.k = "Call" /\ IsConvertibleTensorOp(stmt.expr)
TensorOpStmts(func) ==
  SelectSeq(BodyStmts(func), IsTensorOpStmt)
StmtCall(stmt) == IF stmt.k = "AssignStmt" THEN stmt.value ELSE stmt.expr

\* C14: the verifier appends one Error for every Call of a convertible TensorOp
\* that occurs anywhere in the body of an InCore function, nested in another call
\* or in a return value included.
C14_ErrorForEveryTensorOp ==
  pc = "verified" => Cardinality(Errors(diagnostics)) = CountTensorOpsInIncore(output)

\* what the verifier does report: one Error for every statement whose own value or
\* expression is such a Call
C14_ErrorForEveryTensorOpStmt ==
  pc = "verified" =>
    Cardinality(Errors(diagnostics)) =
      SumOver(Len, [j \in DOMAIN output.functions |->
                      IF output.functions[j].func_type = "InCore"
                      THEN TensorOpStmts(output.functions[j]) ELSE <<>>])

\* the run of C14's failing input: the output keeps a tensor op nested in the
\* argument of another call, and the verifier has reported nothing
C14_NestedTensorOpUnreported ==
  /\ pc = "verified" /\ diagnostics = <<>>
  /\ CountTensorOpsInIncore(output) = 1
  /\ \E j \in DOMAIN BodyStmts(output.functions[1]) :
       LET stmt == BodyStmts(output.functions[1])[j]
       IN /\ stmt.k = "EvalStmt" /\ stmt.expr.op = "opaque.n"
          /\ stmt.expr.args[1].k = "Call" /\ stmt.expr.args[1].op = "tensor.add"

\* --- C15
\* the Calls of a convertible TensorOp that the verifier looked at, in order
ReportedCalls(prog) ==
  ConcatAll([j \in DOMAIN prog.functions |->
               IF prog.functions[j].func_type # "InCore" THEN <<>>
               ELSE [i \in DOMAIN TensorOpStmts(prog.functions[j]) |->
                       TensorOpStmts(prog.functions[j])[i]]])

\* C15: every Error the verifier emits for a residual tensor op has severity Error,
\* rule name IncoreBlockOps and the span of the offending Call expression.
C15_ErrorCarriesCallSpan ==
  pc = "verified" =>
    /\ Len(diagnostics) = Len(ReportedCalls(output))
    /\ \A j \in DOMAIN diagnostics :
         /\ diagnostics[j].severity = "Error"
         /\ diagnostics[j].rule_name = "IncoreBlockOps"
         /\ diagnostics[j].span = StmtCall(ReportedCalls(output)[j]).span

\* what the verifier does: the Error has the span of the statement that holds the
\* Call
C15_ErrorCarriesStmtSpan ==
  pc = "verified" =>
    /\ Len(diagnostics) = Len(ReportedCalls(output))
    /\ \A j \in DOMAIN diagnostics :
         /\ diagnostics[j].severity = "Error"
         /\ diagnostics[j].rule_name = "IncoreBlockOps"
         /\ diagnostics[j].span = ReportedCalls(output)[j].span

\* the run of C15's failing input: an Error for a tensor.add whose span is not the
\* Call's
C15_ErrorWithOtherSpan ==
  /\ pc = "verified" /\ Len(diagnostics) = 1
  /\ Len(ReportedCalls(output)) = 1
  /\ StmtCall(ReportedCalls(output)[1]).op = "tensor.add"
  /\ diagnostics[1].span # StmtCall(ReportedCalls(output)[1]).span

\* =========================================================================
\* Properties of the passes as program transformers
\* --- C18 (ConvertTensorToBlockOps)
\* an InCore function without a TensorType parameter and without a Call of a
\* convertible tensor op
NoTensorWork(func) ==
  /\ func.func_type = "InCore"
  /\ \A j \in DOMAIN func.params : func.params[j].type.k # "TensorType"
  /\ CountTensorOpsStmt(func.body) = 0

\* the functions TransformIncoreFunction has returned so far, with their inputs
TransformedSoFar ==
  {j \in DOMAIN functions_phase1 : program.functions[j].func_type = "InCore"}

\* C18: for an InCore function without a TensorType parameter and without a Call of
\* a convertible tensor op the pass returns the same function: no added outputs,
\* and the parameters, the return types and the body, be it one statement or a
\* SeqStmts, are unchanged.
C18_FunctionUnchanged ==
  \A j \in TransformedSoFar :
    NoTensorWork(program.functions[j]) =>
      /\ incore_added_outputs[program.functions[j].name] = 0
      /\ functions_phase1[j].params = program.functions[j].params
      /\ functions_phase1[j].return_types = program.functions[j].return_types
      /\ functions_phase1[j].body = program.functions[j].body

\* what holds: the body's statements are unchanged, in a SeqStmts
C18_StatementsUnchanged ==
  \A j \in TransformedSoFar :
    NoTensorWork(program.functions[j]) =>
      /\ incore_added_outputs[program.functions[j].name] = 0
      /\ functions_phase1[j].name = program.functions[j].name
      /\ functions_phase1[j].params = program.functions[j].params
      /\ functions_phase1[j].return_types = program.functions[j].return_types
      /\ functions_phase1[j].body.k = "SeqStmts"
      /\ BodyStmts(functions_phase1[j]) = BodyStmts(program.functions[j])
      /\ (program.functions[j].body.k = "SeqStmts" =>
            functions_phase1[j] = program.functions[j])

\* the run of C18's failing input: f(s) whose body is the statement `return s`
C18_SingleReturnWrapped ==
  /\ 1 \in TransformedSoFar
  /\ NoTensorWork(program.functions[1])
  /\ program.functions[1].body = ReturnStmt(<<ParamS>>, StmtSpan(1))
  /\ functions_phase1[1].body = SeqStmts(<<ReturnStmt(<<ParamS>>, StmtSpan(1))>>, FuncSpan(1))

\* =========================================================================
\* --- C13
\* the Calls that occur in an expression / a statement
RECURSIVE CallsOfExpr(_)
CallsOfExprs(es) == UNION {CallsOfExpr(es[j]) : j \in DOMAIN es}
CallsOfExpr(e) ==
  CASE e.k = "Call" -> {e} \cup CallsOfExprs(e.args)
    [] e.k = "MakeTuple" -> CallsOfExprs(e.elements)
    [] e.k = "TupleGetItemExpr" -> CallsOfExpr(e.tuple)
    [] IsBinaryExpr(e) -> CallsOfExpr(e.left) \cup CallsOfExpr(e.right)
    [] IsUnaryExpr(e) -> CallsOfExpr(e.operand)
    [] OTHER -> {}

RECURSIVE CallsOfStmt(_)
CallsOfStmt(stmt) ==
  CASE stmt.k = "AssignStmt" -> CallsOfExpr(stmt.value)
    [] stmt.k = "EvalStmt" -> CallsOfExpr(stmt.expr)
    [] stmt.k = "ReturnStmt" -> CallsOfExprs(stmt.value)
    [] stmt.k = "SeqStmts" -> UNION {CallsOfStmt(stmt.stmts[j]) : j \in DOMAIN stmt.stmts}
    [] stmt.k = "IfStmt" -> CallsOfExpr(stmt.condition) \cup CallsOfStmt(stmt.then_body)
    [] OTHER -> {}

FunctionNames(prog) == {prog.functions[j].name : j \in DOMAIN prog.functions}

\* I2, for the calls of functions: a Call whose op is a GlobalVar names a Function
\* of the same program
SatisfiesI2(prog) ==
  \A j \in DOMAIN prog.functions :
    \A call \in CallsOfStmt(prog.functions[j].body) :
      call.op_is_global => call.op \in FunctionNames(prog)

OnlyIdentityPasses == \A j \in DOMAIN passes_ : passes_[j] = Identity

\* C13: a pass whose code is here maps a program that satisfies I2 to a program
\* that satisfies I2: every Call of a GlobalVar in the output names a Function of
\* the output.  Stated for Identity passes, run one after the other.
C13_PassKeepsI2 ==
  (OnlyIdentityPasses /\ SatisfiesI2(input_program)) => SatisfiesI2(current)

\* the same for ConvertTensorToBlockOps, when it returns a program
C13_ConvertKeepsI2 ==
  (pc \in {"built", "verified"} /\ SatisfiesI2(program)) => SatisfiesI2(output)

\* the run of C13's failing input: one Identity pass on a program whose function g
\* calls its function f
C13_IdentityRenamedCallee ==
  /\ passes_ = <<Identity>> /\ pidx = 1
  /\ input_program = Program(<<CalleeAdd, PlainCaller(CalleeAdd)>>, "prog", 1)
  /\ SatisfiesI2(input_program)
  /\ FunctionNames(current) = {"f_identity", "g_identity"}
  /\ \E call \in CallsOfStmt(current.functions[2].body) : call.op_is_global /\ call.op = "f"

\* =========================================================================
\* OpConversionRegistry: registrations and lookups on the singleton
\* =========================================================================
RegFromOps == {"tensor.add", "tensor.exp", "tensor.matmul"}
RegToOps == {"block.add", "block.exp"}
RegFuncs == {"ConvertMatmul"}
RegOnly == UNCHANGED <<convVars, pipeVars, eqVars>>

Registered(from_op, rule) ==
  /\ Len(registrations) < MaxRegistrations
  /\ conversions_' = SetRule(conversions_, from_op, rule)
  /\ registrations' = Append(registrations, [from_op |-> from_op, rule |-> rule])
  /\ UNCHANGED looked_up

RegisterSimple ==
  /\ RegOnly
  /\ \E from_op \in RegFromOps, to_op \in RegToOps : Registered(from_op, SimpleRule(to_op))

RegisterCustom ==
  /\ RegOnly
  /\ \E from_op \in RegFromOps, func \in RegFuncs : Registered(from_op, CustomRule(func))

LookupRule ==
  /\ RegOnly
  /\ \E op_name \in RegFromOps \cup {"tensor.sub", "tensor.unknown"} :
       looked_up' = [name |-> op_name, rule |-> Lookup(conversions_, op_name),
                     at |-> Len(registrations)]
  /\ UNCHANGED <<conversions_, registrations>>

InitReg == ConvIdle /\ PipeIdle /\ EqIdle /\ RegIdle
NextReg == RegisterSimple \/ RegisterCustom \/ LookupRule
SpecReg == InitReg /\ [][NextReg]_vars

\* --- C16
\* the rule of the most recent registration of the name among the first n, the
\* constructor's rule when there is none, no rule when there is none either
LatestRule(n, name) ==
  LET js == {j \in 1..n : registrations[j].from_op = name}
  IN IF js = {} THEN Lookup(BaselineConversions, name)
     ELSE registrations[CHOOSE j \in js : \A j2 \in js : j2 <= j].rule

RegUniverse == DOMAIN BaselineConversions \cup RegFromOps \cup {"tensor.unknown"}

\* C16: after any sequence of RegisterSimple and RegisterCustom calls, Lookup(name)
\* returns the rule of the most recent registration of that name, of either style
\* and for baseline names too, and a registration leaves all other names' rules
\* as they were.
C16_LookupReturnsLatestRule ==
  /\ \A name \in RegUniverse :
       /\ Lookup(conversions_, name) = LatestRule(Len(registrations), name)
       /\ HasConversion(conversions_, name) <=> Lookup(conversions_, name) # NoRule
  /\ looked_up.rule = LatestRule(looked_up.at, looked_up.name)

\* tensor.add, a baseline name, was registered with a custom function and then as
\* a simple mapping again, and looked up after that; tensor.exp is untouched
C16_BaselineRuleReplacedTwice ==
  /\ Len(registrations) = 2
  /\ registrations[1] = [from_op |-> "tensor.add", rule |-> CustomRule("ConvertMatmul")]
  /\ registrations[2] = [from_op |-> "tensor.add", rule |-> SimpleRule("block.exp")]
  /\ looked_up = [name |-> "tensor.add", rule |-> SimpleRule("block.exp"), at |-> 2]
  /\ Lookup(conversions_, "tensor.exp") = SimpleRule("block.exp")

\* --- C19 (Identity)
\* a step that applies the pass at pidx
AppliesPassAtIndex ==
  /\ ppc = "apply" \/ (ppc = "pm" /\ pidx >= 1 /\ pidx <= Len(passes_))
  /\ log' = Append(log, ApplyEvent)

\* out is what Identity makes of the function f
IdentityMapped(f, out) ==
  /\ out.name = f.name \o "_identity"
  /\ out.params = f.params
  /\ \A j \in DOMAIN f.params : structural_equal(out.params[j], f.params[j], FALSE)
  /\ out.return_types = f.return_types
  /\ out.body = f.body
  /\ (f.body.k = "AssignStmt" => structural_equal(out.body, f.body, FALSE))

\* C19: the Identity pass maps every function f of its input, in order, to a
\* function named f.name + "_identity" with the same params, return_types and body
\* (structurally equal, auto-mapping off), and keeps the number of functions and
\* the program's name.
C19_IdentityRenamesOnly ==
  [][(AppliesPassAtIndex /\ passes_[pidx] = Identity) =>
       /\ current'.name = current.name
       /\ Len(current'.functions) = Len(current.functions)
       /\ \A j \in DOMAIN current.functions :
            IdentityMapped(current.functions[j], current'.functions[j])]_vars

\* S1: one Identity pass has run on the program with func1 and func2
C19_IdentityApplied ==
  /\ passes_ = <<Identity>> /\ Len(log) = 1
  /\ input_program = TestProgram
  /\ current.name = "test_program" /\ Len(current.functions) = 2
  /\ current.functions[1].name = "func1_identity"
  /\ current.functions[2].name = "func2_identity"
  /\ current.functions[2].body = TestFunction("func2").body

\* =========================================================================
\* The internal checks of ConvertTensorToBlockOps
\* =========================================================================
\* the check of the declared return type is about to fail: the substituted return
\* value is a tile and the declared type at that index is not a TensorType
ReturnTypeCheckFails ==
  /\ pc = "ret" /\ si <= Len(return_stmt.value)
  /\ ~SubstituteThrows(return_stmt.value[si], tensor_to_tile)
  /\ GetType(SubstituteExpr(return_stmt.value[si], tensor_to_tile)).k = "TileType"
  /\ Phase1Func.return_types[si].k # "TensorType"

\* the body walk is over and it met no top-level ReturnStmt
NoReturnStmtCheckFails ==
  /\ pc = "body" /\ si > Len(BodyStmts(Phase1Func))
  /\ return_stmt = NoStmt

\* a call site of a function with added outputs whose transformed function is
\* not in the Phase-1 map
MissingCalleeCheckFails ==
  /\ InUcs /\ UcsStmt.k = "AssignStmt"
  /\ ~SubstituteThrows(UcsStmt.value, var_map)
  /\ IsCallSite(SubstituteExpr(UcsStmt.value, var_map))
  /\ SubstituteExpr(UcsStmt.value, var_map).op \notin DOMAIN transformed_incore_funcs

ListedCheckFails ==
  ReturnTypeCheckFails \/ NoReturnStmtCheckFails \/ MissingCalleeCheckFails

\* SubstituteExpr is about to meet a BinaryExpr or UnaryExpr whose operand the
\* substitution changes
OperandCheckFails ==
  \/ /\ InBody /\ BodyStmt.k = "AssignStmt"
     /\ SubstituteThrows(BodyStmt.value, tensor_to_tile)
  \/ /\ pc = "ret" /\ si <= Len(return_stmt.value)
     /\ SubstituteThrows(return_stmt.value[si], tensor_to_tile)
  \/ /\ InUcs /\ UcsStmt.k = "AssignStmt"
     /\ SubstituteThrows(UcsStmt.value, var_map)
  \/ /\ InUcs /\ UcsStmt.k = "ReturnStmt" /\ var_map # EmptyMap
     /\ \E j \in DOMAIN UcsStmt.value : SubstituteThrows(UcsStmt.value[j], var_map)

NothingReturned == output = NoProgram /\ diagnostics = <<>>

\* --- C20
\* C20: the pass aborts, returning no program and emitting no diagnostics, exactly
\* when the declared return type of a tile-valued return is not a TensorType, when
\* an InCore body has no top-level ReturnStmt, or when a called function with added
\* outputs is missing from the Phase-1 map; in every other case it does not abort.
C20_AbortsExactlyInListedCases ==
  [][/\ (pc' = "abort") <=> ListedCheckFails
     /\ pc' = "abort" => NothingReturned']_vars

\* C20, the part that holds: each listed failure aborts the pass, with no program
\* and no diagnostics.
C20_ListedCasesAbort ==
  [][ListedCheckFails => (pc' = "abort" /\ NothingReturned')]_vars

\* C20, with the operand check of SubstituteExpr added to the listed cases: every
\* abort is one of these, and once aborted nothing is returned.
C20_AbortsExplained ==
  /\ [][(pc' = "abort") <=> (ListedCheckFails \/ OperandCheckFails)]_vars
  /\ [](pc = "abort" => NothingReturned)

\* the pass aborted in a well-formed InCore function (it has its ReturnStmt and
\* declares the types it returns), at an assignment of a BinaryExpr
C20_AbortOutsideListedCases ==
  /\ AbortedInTransform
  /\ program.functions[fi] \in IncoreFunctions
  /\ return_stmt = NoStmt
  /\ si <= Len(BodyStmts(program.functions[fi]))
  /\ BodyStmts(program.functions[fi])[si].k = "AssignStmt"
  /\ IsBinaryExpr(BodyStmts(program.functions[fi])[si].value)

\* the two listed failures that malformed functions reach
C20_AbortWithoutReturnStmt ==
  /\ AbortedInTransform
  /\ program.functions[fi] = IncoreNoReturn
  /\ si > Len(BodyStmts(IncoreNoReturn))
C20_AbortOnDeclaredScalar ==
  /\ AbortedInTransform
  /\ program.functions[fi] = IncoreScalarDeclared
  /\ return_stmt # NoStmt /\ si = 1

\* =========================================================================
\* IncoreBlockOpsPropertyVerifier.Verify called on its own: any program, any sink
\* =========================================================================
VerifierBody(stmt) == SeqStmts(<<stmt, ReturnStmt(<<ParamA>>, StmtSpan(2))>>, FuncSpan(1))
VerifierFunction(body, func_type) ==
  Function("f", <<ParamA>>, <<T16>>, body, FuncSpan(1), func_type)

NullBodyFunction == VerifierFunction(NoStmt, "InCore")
GlobalCallFunction ==
  VerifierFunction(VerifierBody(AssignStmt(Target("t", 1, T16),
                                           Call("h", TRUE, <<ParamA>>, <<>>, T16, CallSpan(1)),
                                           StmtSpan(1))), "InCore")
UnregisteredOpFunction ==
  VerifierFunction(VerifierBody(EvalStmt(OpCall("opaque.n", <<ParamA>>, S64, 1),
                                         StmtSpan(1))), "InCore")
BlockOpFunction ==
  VerifierFunction(VerifierBody(AssignStmt(Target("t", 1, T16),
                                           OpCall("block.add", <<ParamA, ParamA>>, T16, 1),
                                           StmtSpan(1))), "InCore")
TensorOpFunction ==
  VerifierFunction(VerifierBody(AssignStmt(Target("t", 1, T16),
                                           OpCall("tensor.add", <<ParamA, ParamA>>, T16, 1),
                                           StmtSpan(1))), "InCore")
TensorOpInOrchestration ==
  VerifierFunction(VerifierBody(AssignStmt(Target("t", 1, T16),
                                           OpCall("tensor.add", <<ParamA, ParamA>>, T16, 1),
                                           StmtSpan(1))), "Orchestration")

VerifierFunctions ==
  {NoFunction, NullBodyFunction, GlobalCallFunction, UnregisteredOpFunction,
   BlockOpFunction, TensorOpFunction, TensorOpInOrchestration}

VerifierPrograms ==
  {NoProgram}
  \cup {Program(<<>>, "prog", 1)}
  \cup {Program(<<f>>, "prog", 1) : f \in VerifierFunctions}
  \cup {Program(<<f, g>>, "prog", 1) : f \in VerifierFunctions, g \in VerifierFunctions}

\* what other verifiers left in the sink before this one runs
PriorDiagnostic == Diagnostic("Warning", "SSAVerify", 1, "reported earlier", 5)
PriorSinks == {<<>>, <<PriorDiagnostic>>}

VerifyInit ==
  /\ program = NoProgram /\ pc = "built" /\ fi = 0 /\ si = 0 /\ nid = FreshBase
  /\ tensor_to_tile = EmptyMap /\ var_map = EmptyMap /\ new_stmts = <<>>
  /\ return_stmt = NoStmt /\ new_params = <<>> /\ new_return_types = <<>>
  /\ new_return_exprs = <<>> /\ num_added_outputs = 0 /\ changed = FALSE
  /\ incore_added_outputs = EmptyMap /\ transformed_incore_funcs = EmptyMap
  /\ functions_phase1 = <<>> /\ functions_phase2 = <<>>
  /\ output \in VerifierPrograms
  /\ diagnostics \in PriorSinks

InitVerify == VerifyInit /\ PipeIdle /\ EqIdle /\ RegIdle
NextVerify == Verify
SpecVerify == InitVerify /\ [][NextVerify]_vars

\* --- C21
IsPrefixOf(short, long) ==
  /\ Len(short) <= Len(long)
  /\ \A j \in DOMAIN short : long[j] = short[j]

\* the top-level Call of a statement the verifier looks at, if it has one
HasTopCall(stmt) ==
  \/ stmt.k = "AssignStmt" /\ stmt.value.k = "Call"
  \/ stmt.k = "EvalStmt" /\ stmt.expr.k = "Call"
TopCall(stmt) == IF stmt.k = "AssignStmt" THEN stmt.value ELSE stmt.expr

\* every function of the program is one of the claim's cases: null, without a
\* body, or calling only GlobalVars and ops that are not registered
NothingToReport(prog) ==
  \/ prog = NoProgram
  \/ \A j \in DOMAIN prog.functions :
       LET f == prog.functions[j]
       IN \/ f = NoFunction
          \/ f.body = NoStmt
          \/ \A i \in DOMAIN BodyStmts(f) :
               HasTopCall(BodyStmts(f)[i]) =>
                 \/ TopCall(BodyStmts(f)[i]).op_is_global
                 \/ ~IsRegistered(TopCall(BodyStmts(f)[i]).op)

\* C21: Verify returns (it never raises) and keeps what the sink held: it appends
\* nothing for a null program, a null function, a function without body, a call
\* of a GlobalVar and a call of an unregistered op, and what it finds it appends
\* as IncoreBlockOps diagnostics.
C21_VerifyOnlyAppends ==
  [][pc = "built" =>
       /\ pc' = "verified"
       /\ IsPrefixOf(diagnostics, diagnostics')
       /\ NothingToReport(output) => diagnostics' = diagnostics
       /\ \A j \in (Len(diagnostics) + 1)..Len(diagnostics') :
            /\ diagnostics'[j].rule_name = "IncoreBlockOps"
            /\ diagnostics'[j].severity = "Error"]_vars

\* Verify ran on a null function and a function without body, with a sink that
\* was not empty, and the sink is as it was
C21_NullFunctionsVerified ==
  /\ pc = "verified" /\ program = NoProgram
  /\ output.functions = <<NoFunction, NullBodyFunction>>
  /\ diagnostics = <<PriorDiagnostic>>

\* Verify appended its finding behind the earlier one
C21_FindingAppended ==
  /\ pc = "verified" /\ program = NoProgram
  /\ output.functions = <<GlobalCallFunction, TensorOpFunction>>
  /\ Len(diagnostics) = 2 /\ diagnostics[1] = PriorDiagnostic
  /\ diagnostics[2].rule_name = "IncoreBlockOps"

\* =========================================================================
\* Var references in the output of ConvertTensorToBlockOps
\* =========================================================================
\* the Var nodes an expression / a statement refers to (an AssignStmt's target is
\* a definition, not a reference)
RECURSIVE UsedVarsExpr(_)
UsedVarsExprs(es) == UNION {UsedVarsExpr(es[j]) : j \in DOMAIN es}
UsedVarsExpr(e) ==
  CASE e.k = "Var" -> {e}
    [] e.k = "Call" -> UsedVarsExprs(e.args)
    [] e.k = "MakeTuple" -> UsedVarsExprs(e.elements)
    [] e.k = "TupleGetItemExpr" -> UsedVarsExpr(e.tuple)
    [] IsBinaryExpr(e) -> UsedVarsExpr(e.left) \cup UsedVarsExpr(e.right)
    [] IsUnaryExpr(e) -> UsedVarsExpr(e.operand)
    [] OTHER -> {}

RECURSIVE UsedVarsStmt(_)
UsedVarsStmt(stmt) ==
  CASE stmt.k = "AssignStmt" -> UsedVarsExpr(stmt.value)
    [] stmt.k = "EvalStmt" -> UsedVarsExpr(stmt.expr)
    [] stmt.k = "ReturnStmt" -> UsedVarsExprs(stmt.value)
    [] stmt.k = "SeqStmts" -> UNION {UsedVarsStmt(stmt.stmts[j]) : j \in DOMAIN stmt.stmts}
    [] stmt.k = "IfStmt" -> UsedVarsExpr(stmt.condition) \cup UsedVarsStmt(stmt.then_body)
    [] OTHER -> {}

\* --- C22
\* every reference of the statement to a re-bound name is the fresh Var
RefersToFresh(stmt, vmap) ==
  \A u \in UsedVarsStmt(stmt) : u.name \in DOMAIN vmap => u = vmap[u.name]

\* the statements this step of UpdateCallSites emitted
EmittedNow == {new_stmts'[j] : j \in (Len(new_stmts) + 1)..Len(new_stmts')}

\* C22: in UpdateCallSites, once an assignment to v was re-bound to a fresh Var,
\* every later top-level statement, of any kind, is emitted with its references
\* to v replaced by the fresh Var.
C22_LaterStatementsSubstituted ==
  [][(InUcs /\ pc' # "abort") =>
       \A stmt \in EmittedNow : RefersToFresh(stmt, var_map)]_vars

\* C22 for the statements UpdateCallSites substitutes in: AssignStmt and ReturnStmt
C22_AssignAndReturnSubstituted ==
  [][(InUcs /\ pc' # "abort" /\ UcsStmt.k \in {"AssignStmt", "ReturnStmt"}) =>
       \A stmt \in EmittedNow : RefersToFresh(stmt, var_map)]_vars

\* an EvalStmt was emitted behind the re-binding of a Var it refers to, and still
\* refers to the Var of the input
C22_EvalStmtKeepsOldVar ==
  /\ pc = "ucs" /\ Len(new_stmts) >= 1
  /\ new_stmts[Len(new_stmts)].k = "EvalStmt"
  /\ \E u \in UsedVarsStmt(new_stmts[Len(new_stmts)]) :
       /\ u.name \in DOMAIN var_map
       /\ u # var_map[u.name]

\* =========================================================================
\* Definition fields in structural_equal
\* =========================================================================
\* --- C23
\* an assignment of a Var to a Var
IsVarAssign(node) == node.k = "AssignStmt" /\ node.value.k = "Var"

\* the comparison at the head of the work list is that of a definition field: the
\* restore of the flag is what follows it
InDefField == Len(work) >= 2 /\ work[2].t = "restore"

\* C23: the Var of a DefField is compared with auto-mapping enabled whatever the
\* caller's flag, and the flag is the caller's again for the fields that follow, so
\* with auto_map = false the value Vars are compared by pointer even if the DefField
\* mapped them: 'x = y' against 'a = b' with four distinct Vars of one type is
\* unequal with auto_map = false and equal with auto_map = true.
C23_DefFieldForcesAutoMapping ==
  /\ (eq_result = "running" /\ work # <<>> /\ Head(work).t = "cmp") =>
       enable_auto_mapping_ = (IF InDefField THEN TRUE ELSE user_auto_mapping)
  /\ (EqFinished /\ IsVarAssign(lhs) /\ IsVarAssign(rhs) /\ ~user_auto_mapping) =>
       (eq_result = "true") = (lhs.value.id = rhs.value.id)
  /\ (EqFinished /\ IsVarAssign(lhs) /\ IsVarAssign(rhs) /\ user_auto_mapping
        /\ lhs.var.type = rhs.var.type /\ lhs.value.type = rhs.value.type
        /\ Cardinality({lhs.var.id, lhs.value.id, rhs.var.id, rhs.value.id}) = 4) =>
       eq_result = "true"

\* 'v1 = v2' against its copy 'v1c = v2c', auto_map = false: unequal
C23_FourVarsUnequalWithoutAutoMapping ==
  /\ eq_result = "false" /\ ~user_auto_mapping
  /\ lhs = AssignStmt(EqVarNode(1), EqVarNode(2), 0)
  /\ rhs = Clone(lhs)
  /\ lhs_to_rhs_var_map_ = MapPut(EmptyMap, 1, Clone(EqVarNode(1)).id)

\* the same two statements, auto_map = true: equal
C23_FourVarsEqualWithAutoMapping ==
  /\ eq_result = "true" /\ user_auto_mapping
  /\ lhs = AssignStmt(EqVarNode(1), EqVarNode(2), 0)
  /\ rhs = Clone(lhs)

\* 'v1 = v1' against 'v2 = v2', auto_map = false: the DefField mapped v1 to v2 and
\* the value is compared by pointer all the same
C23_MappedVarComparedByPointer ==
  /\ eq_result = "false" /\ ~user_auto_mapping
  /\ lhs = AssignStmt(EqVarNode(1), EqVarNode(1), 0)
  /\ rhs = AssignStmt(EqVarNode(2), EqVarNode(2), 0)
  /\ lhs_to_rhs_var_map_ = MapPut(EmptyMap, 1, 2)

\* =========================================================================
\* Calls of InCore functions in the output of ConvertTensorToBlockOps
\* =========================================================================
\* --- C24
FunctionNamed(prog, name) ==
  prog.functions[CHOOSE j \in DOMAIN prog.functions : prog.functions[j].name = name]

\* the calls of InCore functions of prog among the given calls
IncoreCalls(prog, calls) ==
  {call \in calls :
     /\ call.op_is_global
     /\ \E j \in DOMAIN prog.functions :
          prog.functions[j].name = call.op /\ prog.functions[j].func_type = "InCore"}

ArityMatches(prog, calls) ==
  \A call \in IncoreCalls(prog, calls) :
    Len(call.args) = Len(FunctionNamed(prog, call.op).params)

AllCallsMatch(prog) ==
  \A j \in DOMAIN prog.functions : ArityMatches(prog, CallsOfStmt(prog.functions[j].body))

\* the calls that are the value of a top-level AssignStmt of a function
TopLevelAssignedCalls(func) ==
  {BodyStmts(func)[i].value : i \in {i \in DOMAIN BodyStmts(func) :
                                       /\ BodyStmts(func)[i].k = "AssignStmt"
                                       /\ BodyStmts(func)[i].value.k = "Call"}}

PassReturned == pc \in {"built", "verified"}

\* C24: when every call of the input passes as many arguments as its callee has
\* parameters, every Call of an InCore function in the output passes as many
\* arguments as that function has parameters in the output, wherever it occurs.
C24_CallArityPreserved ==
  (PassReturned /\ AllCallsMatch(program)) => AllCallsMatch(output)

\* C24 for the calls UpdateCallSites rewrites: the values of the top-level
\* assignments of the functions that are not InCore
C24_AssignedCallArityPreserved ==
  (PassReturned /\ AllCallsMatch(program)) =>
    \A j \in DOMAIN output.functions :
      output.functions[j].func_type # "InCore" =>
        ArityMatches(output, TopLevelAssignedCalls(output.functions[j]))

\* the pass returned a caller whose EvalStmt calls f with the arguments of the
\* input, f having received an output parameter
C24_EvalStmtCallKeepsArity ==
  /\ PassReturned /\ AllCallsMatch(program)
  /\ \E j \in DOMAIN output.functions :
       \E i \in DOMAIN BodyStmts(output.functions[j]) :
         LET stmt == BodyStmts(output.functions[j])[i]
         IN /\ stmt.k = "EvalStmt" /\ stmt.expr.k = "Call" /\ stmt.expr.op_is_global
            /\ stmt.expr.op = "f"
            /\ Len(stmt.expr.args) < Len(FunctionNamed(output, "f").params)

\* --- C25
\* the Vars the first n top-level statements of a function bind, with its parameters
BoundBefore(func, n) ==
  SeqRange(func.params)
  \cup {BodyStmts(func)[i].var : i \in {i \in 1..(n - 1) : BodyStmts(func)[i].k = "AssignStmt"}}

\* I5 for a function: every Var a statement uses is, as a node, a parameter or the
\* target of an earlier assignment
WellScoped(func) ==
  \A i \in DOMAIN BodyStmts(func) :
    UsedVarsStmt(BodyStmts(func)[i]) \subseteq BoundBefore(func, i)

AllWellScoped(prog) == \A j \in DOMAIN prog.functions : WellScoped(prog.functions[j])

OnlyAssignAndReturn(func) ==
  \A i \in DOMAIN BodyStmts(func) : BodyStmts(func)[i].k \in {"AssignStmt", "ReturnStmt"}

\* C25: when every Var used in the input refers to a parameter or to the target of
\* an earlier assignment of its function, so does every Var used in the output, in
\* InCore and in other functions, pass-through statements included.
C25_VarsBoundInOutput ==
  (PassReturned /\ AllWellScoped(program)) => AllWellScoped(output)

\* C25 for the functions made of assignments and a return only
C25_VarsBoundWithoutPassThrough ==
  (PassReturned /\ AllWellScoped(program)) =>
    \A j \in DOMAIN output.functions :
      OnlyAssignAndReturn(program.functions[j]) => WellScoped(output.functions[j])

\* the pass returned an InCore function with an EvalStmt that uses a Var no
\* parameter and no earlier assignment of the output is
C25_IncoreEvalStmtUsesUnboundVar ==
  /\ PassReturned /\ AllWellScoped(program)
  /\ \E j \in DOMAIN output.functions :
       /\ output.functions[j].func_type = "InCore"
       /\ \E i \in DOMAIN BodyStmts(output.functions[j]) :
            /\ BodyStmts(output.functions[j])[i].k = "EvalStmt"
            /\ ~(UsedVarsStmt(BodyStmts(output.functions[j])[i])
                   \subseteq BoundBefore(output.functions[j], i))

\* the same in a function that is not InCore
C25_CallerEvalStmtUsesUnboundVar ==
  /\ PassReturned /\ AllWellScoped(program)
  /\ \E j \in DOMAIN output.functions :
       /\ output.functions[j].func_type # "InCore"
       /\ \E i \in DOMAIN BodyStmts(output.functions[j]) :
            /\ BodyStmts(output.functions[j])[i].k = "EvalStmt"
            /\ ~(UsedVarsStmt(BodyStmts(output.functions[j])[i])
                   \subseteq BoundBefore(output.functions[j], i))

\* =========================================================================
\* The operand check of SubstituteExpr
\* =========================================================================
\* --- C26
\* the BinaryExpr / UnaryExpr nodes of an expression
RECURSIVE ArithOfExpr(_)
ArithOfExprs(es) == UNION {ArithOfExpr(es[j]) : j \in DOMAIN es}
ArithOfExpr(e) ==
  CASE e.k = "Call" -> ArithOfExprs(e.args)
    [] e.k = "MakeTuple" -> ArithOfExprs(e.elements)
    [] e.k = "TupleGetItemExpr" -> ArithOfExpr(e.tuple)
    [] IsBinaryExpr(e) -> {e} \cup ArithOfExpr(e.left) \cup ArithOfExpr(e.right)
    [] IsUnaryExpr(e) -> {e} \cup ArithOfExpr(e.operand)
    [] OTHER -> {}

ArithOfStmt(stmt) ==
  CASE stmt.k = "AssignStmt" -> ArithOfExpr(stmt.value)
    [] stmt.k = "EvalStmt" -> ArithOfExpr(stmt.expr)
    [] stmt.k = "ReturnStmt" -> ArithOfExprs(stmt.value)
    [] OTHER -> {}

Operands(e) == IF IsBinaryExpr(e) THEN {e.left, e.right} ELSE {e.operand}

ScalarOperandsOnly(func) ==
  \A i \in DOMAIN BodyStmts(func) :
    \A e \in ArithOfStmt(BodyStmts(func)[i]) :
      \A o \in Operands(e) : GetType(o).k = "ScalarType"

\* SSA: no two assignments of the body bind the same name, and none a parameter's
SingleAssignment(func) ==
  LET b == BodyStmts(func)
      assigns == {i \in DOMAIN b : b[i].k = "AssignStmt"}
  IN /\ \A i \in assigns, j \in assigns : b[i].var.name = b[j].var.name => i = j
     /\ \A i \in assigns : \A k \in DOMAIN func.params : b[i].var.name # func.params[k].name

\* a returned tensor is declared as a TensorType
TensorReturnsDeclared(func) ==
  LET b == BodyStmts(func)
      ret == b[Len(b)]
  IN /\ Len(func.return_types) = Len(ret.value)
     /\ \A i \in DOMAIN ret.value :
          GetType(ret.value[i]).k = "TensorType" => func.return_types[i].k = "TensorType"

C26_Precondition(func) ==
  /\ func.func_type = "InCore"
  /\ IsFlatAssignBody(func)
  /\ SingleAssignment(func)
  /\ ScalarOperandsOnly(func)
  /\ TensorReturnsDeclared(func)

\* C26: on an InCore function in SSA form with a flat body of AssignStmts and one
\* ReturnStmt, scalar operands in every BinaryExpr / UnaryExpr and TensorType
\* declared for its tensor returns, no internal check fails; the operand check of
\* SubstituteExpr does not fire, also when the operand is bound by an earlier
\* non-converted call that takes a tensor.
C26_NoInternalCheckFailure ==
  AbortedInTransform => ~C26_Precondition(program.functions[fi])

\* C26 apart from the operand check: a function of C26's kind aborts only at an
\* assignment whose BinaryExpr / UnaryExpr has an operand recorded in tensor_to_tile
C26_FailureOnlyOnReboundOperand ==
  (AbortedInTransform /\ C26_Precondition(program.functions[fi])) =>
    /\ return_stmt = NoStmt
    /\ si <= Len(BodyStmts(program.functions[fi]))
    /\ \E e \in ArithOfStmt(BodyStmts(program.functions[fi])[si]) :
         \E o \in Operands(e) : o.k = "Var" /\ o.name \in DOMAIN tensor_to_tile

\* the pass aborted at `t2 = t1 + 1` after re-binding `t1 = opaque.n(a)`
C26_AbortOnScalarBoundByOpaqueCall ==
  /\ AbortedInTransform /\ si = 2
  /\ C26_Precondition(program.functions[fi])
  /\ LET b == BodyStmts(program.functions[fi])
     IN /\ b[1].value.k = "Call" /\ b[1].value.op = "opaque.n"
        /\ b[1].value.args = <<ParamA>>
        /\ IsBinaryExpr(b[2].value) /\ b[2].value.left = b[1].var
        /\ tensor_to_tile[b[1].var.name].type = S64

\* =========================================================================
\* Types of the Vars ConvertTensorToBlockOps binds
\* =========================================================================
\* --- C27
TypedAssign(stmt) == stmt.k = "AssignStmt" => stmt.var.type = GetType(stmt.value)

\* I3 for the top-level statements of every function
SatisfiesI3(prog) ==
  \A j \in DOMAIN prog.functions :
    \A i \in DOMAIN BodyStmts(prog.functions[j]) : TypedAssign(BodyStmts(prog.functions[j])[i])

\* the statements of prog that assign a Call of the op to a Var the pass made
CreatedBy(prog, op) ==
  UNION {{BodyStmts(prog.functions[j])[i] :
            i \in {i \in DOMAIN BodyStmts(prog.functions[j]) :
                     LET stmt == BodyStmts(prog.functions[j])[i]
                     IN /\ stmt.k = "AssignStmt" /\ stmt.var.id >= FreshBase
                        /\ stmt.value.k = "Call" /\ stmt.value.op = op}} :
         j \in DOMAIN prog.functions}

\* C27: every AssignStmt the pass creates binds a Var of the type of its value, so
\* the output satisfies I3 whenever the input does.
C27_CreatedAssignmentsTyped ==
  SatisfiesI3(program) =>
    /\ \A i \in DOMAIN new_stmts : TypedAssign(new_stmts[i])
    /\ PassReturned => SatisfiesI3(output)

\* the pass returned a program with one assignment of each kind it creates:
\* block.load, a converted op, block.store, a re-bound opaque call, tensor.create
\* and a rewritten call of f
C27_EveryKindCreated ==
  /\ PassReturned /\ SatisfiesI3(program)
  /\ \A op \in {"block.load", "block.add", "block.store", "opaque.n", "tensor.create", "f"} :
       CreatedBy(output, op) # {}

\* =========================================================================
\* The signature TransformIncoreFunction returns
\* =========================================================================
\* --- C28
\* the return values before position n whose substituted expression is a tile
TileReturnsBefore(n) ==
  {i \in 1..(n - 1) :
     GetType(SubstituteExpr(return_stmt.value[i], tensor_to_tile)).k = "TileType"}

\* params is orig followed by k new TensorType parameters out_0 .. out_(k-1)
OutputsAppended(orig, params, k) ==
  /\ Len(params) = Len(orig) + k
  /\ \A i \in DOMAIN orig : params[i] = orig[i]
  /\ \A i \in 1..k :
       /\ params[Len(orig) + i].name = "out_" \o ToString(i - 1)
       /\ params[Len(orig) + i].type.k = "TensorType"
       /\ params[Len(orig) + i].id >= FreshBase

\* C28: TransformIncoreFunction returns the original parameters followed by
\* num_added_outputs new TensorType parameters out_0, out_1, ..; the counter counts
\* the return values whose substituted expression is a tile, not their positions,
\* and there are as many return types as returned expressions.
C28_SignatureOfTransformedFunction ==
  /\ pc = "ret" =>
       /\ num_added_outputs = Cardinality(TileReturnsBefore(si))
       /\ OutputsAppended(Phase1Func.params, new_params, num_added_outputs)
       /\ Len(new_return_types) = si - 1
       /\ Len(new_return_exprs) = si - 1
  /\ \A j \in DOMAIN functions_phase1 :
       program.functions[j].func_type = "InCore" =>
         LET new == functions_phase1[j]
             out == BodyStmts(new)
         IN /\ OutputsAppended(program.functions[j].params, new.params,
                               incore_added_outputs[new.name])
            /\ Len(new.return_types) = Len(out[Len(out)].value)

\* TransformIncoreFunction returned f(a, s) { ..; return t1, a } with t1 a scalar:
\* the tile is the second return value and its output parameter is out_0
C28_SecondReturnIsFirstOutput ==
  /\ Len(functions_phase1) >= 1
  /\ program.functions[1].func_type = "InCore"
  /\ program.functions[1].params = <<ParamA, ParamS>>
  /\ LET b == BodyStmts(program.functions[1])
     IN /\ Len(b[Len(b)].value) = 2
        /\ GetType(b[Len(b)].value[1]).k = "ScalarType"
        /\ b[Len(b)].value[2] = ParamA
  /\ incore_added_outputs["f"] = 1
  /\ functions_phase1[1].params[3].name = "out_0"

\* =========================================================================
\* Function types under the Identity pass
\* =========================================================================
\* --- C29
IncoreFunctionIndexes(prog) ==
  {j \in DOMAIN prog.functions : prog.functions[j].func_type = "InCore"}

PassesStarted == current # NoProgram

\* C29: the Identity pass leaves the func_type of every function as it was, so a
\* program has the same InCore functions before and after any number of Identity
\* passes.
C29_IdentityKeepsFuncType ==
  (OnlyIdentityPasses /\ PassesStarted) =>
    /\ Len(current.functions) = Len(input_program.functions)
    /\ \A j \in DOMAIN current.functions :
         current.functions[j].func_type = input_program.functions[j].func_type
    /\ IncoreFunctionIndexes(current) = IncoreFunctionIndexes(input_program)

\* C29 for the functions whose type is the one the Function constructor gives
\* when none is passed
C29_DefaultFuncTypeKept ==
  (OnlyIdentityPasses /\ PassesStarted) =>
    /\ Len(current.functions) = Len(input_program.functions)
    /\ \A j \in DOMAIN current.functions :
         input_program.functions[j].func_type = DefaultFuncType =>
           current.functions[j].func_type = DefaultFuncType

\* one Identity pass has run on the program of InCore f and Orchestration g, and
\* the program has no InCore function any more
C29_IncoreFunctionLost ==
  /\ passes_ = <<Identity>> /\ Len(log) = 1
  /\ input_program = Program(<<CalleeAdd, PlainCaller(CalleeAdd)>>, "prog", 1)
  /\ IncoreFunctionIndexes(input_program) = {1}
  /\ current.functions[1].name = "f_identity"
  /\ IncoreFunctionIndexes(current) = {}

\* =========================================================================
\* PassPipeline.Run over the built-in passes: the tracked property set
\* =========================================================================
kFlattenCallExprProperties ==
  PassProperties({"TypeChecked"}, {"NoNestedCalls"},
                 {"NormalizedStmtStructure", "FlattenedSingleStmt"})
kOutlineIncoreScopesProperties == PassProperties({"SSAForm"}, {"SplitIncoreOrch"}, {})
kConvertTensorToBlockOpsProperties ==
  PassProperties({"SplitIncoreOrch"}, {"IncoreBlockOps"}, {})
kInitMemRefProperties == PassProperties({"SSAForm"}, {"HasMemRefs"}, {})
kBasicMemoryReuseProperties == PassProperties({"HasMemRefs"}, {}, {})
kInsertSyncProperties == PassProperties({"HasMemRefs"}, {}, {})
kAddAllocProperties == PassProperties({"HasMemRefs"}, {}, {})

\* a built-in pass whose transform is not looked at: it leaves the program alone
\* and its output passes the verifiers of what it produces
BuiltInPass(name, properties) == Pass(name, properties, "Other", properties.produced, {})

BuiltInPasses ==
  {Identity, ConvertToSSA(TRUE), NormalizeStmtStructure, FlattenSingleStmt,
   BuiltInPass("FlattenCallExpr", kFlattenCallExprProperties),
   BuiltInPass("OutlineIncoreScopes", kOutlineIncoreScopesProperties),
   BuiltInPass("ConvertTensorToBlockOps", kConvertTensorToBlockOpsProperties),
   BuiltInPass("InitMemRef", kInitMemRefProperties),
   BuiltInPass("BasicMemoryReuse", kBasicMemoryReuseProperties),
   BuiltInPass("InsertSync", kInsertSyncProperties),
   BuiltInPass("AddAlloc", kAddAllocProperties)}

RECURSIVE BuiltInPassLists(_)
BuiltInPassLists(n) ==
  IF n = 0 THEN {<<>>}
  ELSE BuiltInPassLists(n - 1)
         \cup {Append(ps, q) : ps \in {l \in BuiltInPassLists(n - 1) : Len(l) = n - 1},
                               q \in BuiltInPasses}

StructureProperties == {"NormalizedStmtStructure", "FlattenedSingleStmt"}
InitialPropertySets ==
  {{}, {"TypeChecked", "SSAForm"}, {"TypeChecked", "NormalizedStmtStructure"},
   {"TypeChecked", "FlattenedSingleStmt"}, StructureProperties}

PropsInit ==
  /\ passes_ \in BuiltInPassLists(MaxPasses)
  /\ ppc = "start"
  /\ verification_mode_ = "None"
  /\ initial_properties_ \in InitialPropertySets
  /\ input_program = TestProgram
  /\ input_defects = {}
  /\ pidx = 0 /\ current = NoProgram /\ defects = {} /\ current_props = {}
  /\ log = <<>>

InitProps == ConvIdle /\ PropsInit /\ EqIdle /\ RegIdle
NextProps == RunBegin \/ SkipBefore \/ ApplyPass \/ SkipAfter \/ RunReturn
SpecProps == InitProps /\ [][NextProps]_vars

\* --- C30
\* C30: whatever built-in passes Run applies, starting from a property set that
\* does not hold both NormalizedStmtStructure and FlattenedSingleStmt, the tracked
\* set never holds both.
C30_StructurePropertiesExclusive ==
  ~(StructureProperties \subseteq initial_properties_) =>
    ~(StructureProperties \subseteq current_props)

\* Run started with NormalizedStmtStructure tracked and applied FlattenSingleStmt
\* and then NormalizeStmtStructure: the tracked structure property changed twice
C30_StructurePropertySwitchedTwice ==
  /\ ppc = "after" /\ pidx = 2
  /\ initial_properties_ = {"TypeChecked", "NormalizedStmtStructure"}
  /\ passes_[1] = FlattenSingleStmt /\ passes_[2] = NormalizeStmtStructure
  /\ log[1].tracked = {"TypeChecked", "NormalizedStmtStructure"}
  /\ log[2].tracked = {"TypeChecked", "FlattenedSingleStmt"}
  /\ current_props = {"TypeChecked", "NormalizedStmtStructure"}

====
